---------------------------- MODULE Spec2Model ----------------------------
(***************************************************************************)
(* A model of lib/cgroup.c of libvzctl: the mount resolver and its cache,  *)
(* the per-container hierarchy lifecycle (cg_new_cgroup,                   *)
(* cg_destroy_cgroup), the non-recursive tree removal (rm_tree,            *)
(* goto_next_dir, rmdir_retry), the bind-mount setup and the cpuset mask   *)
(* accessor.                                                               *)
(*                                                                         *)
(* One module, several specifications over the same variables: each        *)
(* specification drives one component and leaves the others' variables at  *)
(* their initial values.                                                   *)
(*   SpecLife   cg_new_cgroup / cg_destroy_cgroup on one host              *)
(*   SpecCtl    concurrent cg_get_ctl callers                              *)
(*   SpecRm     rm_tree, one loop iteration per step                       *)
(*   SpecRetry  rmdir_retry, one loop iteration per step                   *)
(*   SpecBind   bindmount_env_cgroup                                       *)
(*   SpecMask   cg_env_set_cpumask / cg_env_set_nodemask                   *)
(***************************************************************************)
EXTENDS Integers, Sequences, FiniteSets, TLC

(***************************************************************************)
(* Bounds of the model.                                                    *)
(***************************************************************************)
\* cgroup lines of /proc/mounts on the modelled host
MaxMounts == 2
\* number of such directories on the host at one time
MaxSubdirs == 2
\* directories that hold lingering task references at one time
MaxBusy == 1
\* directories below the root of a tree rm_tree is run on
MaxNodes == 4
\* threads that call cg_get_ctl, and calls they make in all
MaxThreads == 2
MaxCalls == 3
\* bits of a cpu or node mask
MaskBits == 6
MaxPolls == 3
MaxFrzCalls == 2
MaxPct == 100
BigPct == 102400
MaxUnits == 60
BigUnits == 4194280

(***************************************************************************)
(* Values.                                                                 *)
(***************************************************************************)
NULL == "NULL"
NoFd == <<"-1">>
NoName == ""

\* vzerror.h is not among the sources; the codes are used at the lines named
\* in the results file, and only their being non-zero and distinct matters.
VZCTL_E_SYSTEM == 3
VZCTL_E_NOMEM == 4
VZCTL_E_RESOURCE == 6
VZCTL_E_CREATE_DIR == 49
VZCTL_E_CPUMASK == 17
EIO == 5

Min(S) == CHOOSE x \in S : \A y \in S : x <= y
Max(S) == CHOOSE x \in S : \A y \in S : x >= y

RECURSIVE BitOr(_, _)
BitOrMut(a, b) == b
BitOr(a, b) ==
    IF a = 0 THEN b
    ELSE IF b = 0 THEN a
    ELSE (IF a % 2 = 1 \/ b % 2 = 1 THEN 1 ELSE 0) + 2 * BitOr(a \div 2, b \div 2)

(***************************************************************************)
(* The controller table.                                                   *)
(***************************************************************************)
cg_ctl_map == <<
    [subsys |-> "cpu",        is_prvt |-> 0],
    [subsys |-> "cpuset",     is_prvt |-> 0],
    [subsys |-> "net_cls",    is_prvt |-> 0],
    [subsys |-> "memory",     is_prvt |-> 0],
    [subsys |-> "devices",    is_prvt |-> 0],
    [subsys |-> "blkio",      is_prvt |-> 0],
    [subsys |-> "freezer",    is_prvt |-> 0],
    [subsys |-> "beancounter", is_prvt |-> 1],
    [subsys |-> "ve",         is_prvt |-> 1],
    [subsys |-> "perf_event", is_prvt |-> 0],
    [subsys |-> "hugetlb",    is_prvt |-> 0],
    [subsys |-> "pids",       is_prvt |-> 0],
    [subsys |-> "systemd",    is_prvt |-> 0] >>

NCtl == Len(cg_ctl_map)
Ctls == 1..NCtl

cg_is_systemd(subsys) == subsys = "systemd"

\* strsep over the comma-separated options: ops is the sequence of tokens
has_substr(ops, str) == \E k \in 1..Len(ops) : ops[k] = str

\* index of the entry, 0 for NULL
find_cg_ctl(subsys) ==
    IF \E i \in Ctls : cg_ctl_map[i].subsys = subsys
    THEN Min({i \in Ctls : cg_ctl_map[i].subsys = subsys})
    ELSE 0

(***************************************************************************)
(* /proc/mounts: a sequence of lines [fstype, target, ops].  The host's    *)
(* table is a subsequence of HostMounts, order kept.                       *)
(***************************************************************************)
HostMounts == <<
    [fstype |-> "cgroup", target |-> "/cg/cpu",        ops |-> <<"rw", "cpu">>],
    [fstype |-> "cgroup", target |-> "/cg/cpu,cpuset", ops |-> <<"rw", "cpu", "cpuset">>],
    [fstype |-> "cgroup", target |-> "/cg/memory",     ops |-> <<"rw", "memory">>],
    [fstype |-> "tmpfs",  target |-> "/cg",            ops |-> <<"rw", "memory">>],
    [fstype |-> "cgroup", target |-> "/cg/ve",         ops |-> <<"rw", "ve">>],
    [fstype |-> "cgroup", target |-> "/cg/systemd",    ops |-> <<"rw", "name=systemd">>],
    [fstype |-> "cgroup", target |-> "/cg/freezer",    ops |-> <<"rw", "freezer">>] >>

RECURSIVE PickLines(_, _)
PickLines(S, k) ==
    IF k > Len(HostMounts) THEN << >>
    ELSE IF k \in S THEN <<HostMounts[k]>> \o PickLines(S, k + 1)
    ELSE PickLines(S, k + 1)

\* the tables that hold the lines `always` and at most MaxMounts of `some`
MountTables(always, some) ==
    { PickLines(always \cup S, 1) : S \in { T \in SUBSET some : Cardinality(T) <= MaxMounts } }

\* get_mount_path: the first line of type cgroup whose options hold the name
\* wins; 1 when there is none, -1 when the table cannot be opened.
get_mount_path_last(subsys, table, readable) ==
    LET want == IF ~cg_is_systemd(subsys) THEN subsys ELSE "name=systemd"
        hits == {k \in 1..Len(table) :
                    table[k].fstype = "cgroup" /\ has_substr(table[k].ops, want)}
    IN  IF ~readable THEN [ret |-> -1, out |-> NULL]
        ELSE IF hits = {} THEN [ret |-> 1, out |-> NULL]
        ELSE [ret |-> 0, out |-> table[Max(hits)].target]

get_mount_path(subsys, table, readable) ==
    LET want == IF ~cg_is_systemd(subsys) THEN subsys ELSE "name=systemd"
        hits == {k \in 1..Len(table) :
                    table[k].fstype = "cgroup" /\ has_substr(table[k].ops, want)}
    IN  IF ~readable THEN [ret |-> -1, out |-> NULL]
        ELSE IF hits = {} THEN [ret |-> 1, out |-> NULL]
        ELSE [ret |-> 0, out |-> table[Min(hits)].target]

\* get_mount_path of every controller on every host of the model, computed
\* once
AllTables == { PickLines(S, 1) : S \in SUBSET (1..Len(HostMounts)) }
ScanOf == [t \in AllTables |->
             [i \in Ctls |-> get_mount_path(cg_ctl_map[i].subsys, t, TRUE)]]
scan(i, table, readable) ==
    IF readable THEN ScanOf[table][i]
    ELSE get_mount_path(cg_ctl_map[i].subsys, table, FALSE)

\* cg_get_ctl run by one thread with nobody else in the critical section.
\* flt is what goes wrong in this call: "none", "fopen" (the table cannot be
\* opened) or "nomem" (xstrdup fails).  Returns the result and the cache.
cg_get_ctl(i, mp, table, flt) ==
    IF mp[i] # NULL THEN [ret |-> 0, mount_path |-> mp, scanned |-> FALSE]
    ELSE LET r == scan(i, table, flt # "fopen")
         IN  IF r.ret # 0
             THEN [ret |-> r.ret, mount_path |-> mp, scanned |-> r.ret # -1]
             ELSE IF flt = "nomem"
             THEN [ret |-> -1, mount_path |-> mp, scanned |-> TRUE]
             ELSE [ret |-> 0, mount_path |-> [mp EXCEPT ![i] = r.out],
                   scanned |-> TRUE]

(***************************************************************************)
(* Directories.  A directory is its path, a sequence of names whose first  *)
(* is the mount point; the mount point itself always exists.  dirs is the  *)
(* set of directories below the mount points.                              *)
(***************************************************************************)
CTIDs == {"101"}
SubNames == {"a", "b"}

cg_get_slice_name == "machine.slice"

IsPrefix(p, d) == Len(p) <= Len(d) /\ SubSeq(d, 1, Len(p)) = p
Parent(d) == SubSeq(d, 1, Len(d) - 1)
Exists(dirs, d) == Len(d) = 1 \/ d \in dirs
Subdirs(dirs, d) == {x \in dirs : Len(x) = Len(d) + 1 /\ IsPrefix(d, x)}
Subtree(dirs, d) == {x \in dirs : IsPrefix(d, x)}
Prefixes(d) == {SubSeq(d, 1, k) : k \in 2..Len(d)}

\* SYSTEMD_CTID_SCOPE_FMT applied to the container id (the format is set in
\* cgroup.h): a name of its own, different from the id and from the slice
SYSTEMD_CTID_SCOPE(ctid) == "scope-" \o ctid

\* get_cgroup_name, with the mount path given
get_cgroup_name(ctid, i, mnt) ==
    IF cg_is_systemd(cg_ctl_map[i].subsys) THEN <<mnt, SYSTEMD_CTID_SCOPE(ctid)>>
    ELSE IF cg_ctl_map[i].is_prvt # 0 THEN <<mnt, ctid>>
    ELSE <<mnt, cg_get_slice_name, ctid>>

(***************************************************************************)
(* rmdir_retry.  r is the state of the loop; out is what unlinkat answers  *)
(* in this iteration: "ok", "EBUSY" or "other" (any other errno).          *)
(* calls, sleeps and lastsleep count what the loop did.  useconds_t is an  *)
(* unsigned int: total ends below timeout + maxwait and wait * 2 is at     *)
(* most 2 * maxwait, both far below 2^32, so no sum or product wraps.      *)
(***************************************************************************)
wait0 == 10000
maxwait == 500000
timeout == 30 * 1000000
Forever == 0 - 1

rmdir_retry_init ==
    [pc |-> "try", total |-> 0, wait |-> wait0, calls |-> 0, sleeps |-> 0,
     lastsleep |-> 0, ret |-> 0]

rmdir_retry_iter_noretry(r, out) ==
    IF out = "ok" THEN [r EXCEPT !.pc = "done", !.ret = 0, !.calls = @ + 1]
    ELSE [r EXCEPT !.pc = "done", !.ret = -1, !.calls = @ + 1]

\* (variant: wait doubles without the cap of lines 383-384)
rmdir_retry_iter_nocap(r, out) ==
    IF out = "ok" THEN [r EXCEPT !.pc = "done", !.ret = 0, !.calls = @ + 1]
    ELSE IF out # "EBUSY" THEN [r EXCEPT !.pc = "done", !.ret = -1, !.calls = @ + 1]
    ELSE LET total == r.total + r.wait
         IN  [r EXCEPT !.calls = @ + 1, !.sleeps = @ + 1, !.lastsleep = r.wait,
                       !.total = total, !.wait = r.wait * 2,
                       !.pc = IF total < timeout THEN "try" ELSE "done",
                       !.ret = IF total < timeout THEN 0 ELSE -1]

rmdir_retry_iter(r, out) ==
    IF out = "ok" THEN [r EXCEPT !.pc = "done", !.ret = 0, !.calls = @ + 1]
    ELSE IF out # "EBUSY" THEN [r EXCEPT !.pc = "done", !.ret = -1, !.calls = @ + 1]
    ELSE LET total == r.total + r.wait
             wait == IF r.wait * 2 > maxwait THEN maxwait ELSE r.wait * 2
         IN  [r EXCEPT !.calls = @ + 1, !.sleeps = @ + 1, !.lastsleep = r.wait,
                       !.total = total, !.wait = wait,
                       !.pc = IF total < timeout THEN "try" ELSE "done",
                       !.ret = IF total < timeout THEN 0 ELSE -1]

\* the whole call on a directory that answers EBUSY `left` times (Forever:
\* always) and then `then`
RECURSIVE rmdir_retry_run(_, _, _)
rmdir_retry_run(r, left, then) ==
    IF r.pc = "done" THEN r
    ELSE rmdir_retry_run(rmdir_retry_iter(r, IF left = 0 THEN then ELSE "EBUSY"),
                         IF left > 0 THEN left - 1 ELSE left, then)

\* what the kernel answers to unlinkat(fd, name, AT_REMOVEDIR) once the task
\* references are gone
unlinkat_answer(dirs, d) ==
    IF d \notin dirs THEN "other"
    ELSE IF Subdirs(dirs, d) # {} THEN "other"
    ELSE "ok"

\* eb: the directories that hold task references, each with the number of
\* EBUSY answers left (Forever: they never drain)
EbusyOf(eb, d) == IF d \in DOMAIN eb THEN eb[d] ELSE 0

rmdir_retry(dirs, d, eb) ==
    rmdir_retry_run(rmdir_retry_init,
                    IF unlinkat_answer(dirs, d) = "ok" THEN EbusyOf(eb, d) ELSE 0,
                    unlinkat_answer(dirs, d)).ret

(***************************************************************************)
(* rm_tree.  w is the state of the walk: the two descriptors (fd and       *)
(* parentfd are the directories they are open on, fdh and parenth the      *)
(* handles, 0 for -1), name, level, ret and the directories.  The handles  *)
(* the walk has opened are 1..nopen, closed[h] is the number of times h    *)
(* was closed, peak the most handles open at one time; streams counts the  *)
(* directory streams fdopendir has made (none is given to closedir);        *)
(* rootrm counts the rmdir(path) calls, rootfailed tells that one failed.  *)
(* ent is the first directory entry the scan of fd yields that is a        *)
(* directory (NoName: there is none); flt is what fails in this iteration. *)
(***************************************************************************)
LiveFds(w) == {h \in 1..w.nopen : w.closed[h] = 0}

\* open / openat: the new handle is w.nopen + 1
fd_open(w) ==
    [w EXCEPT !.nopen = @ + 1, !.closed = Append(@, 0),
              !.peak = Max({@, Cardinality(LiveFds(w)) + 1})]

fd_close(w, h) == IF h = 0 THEN w ELSE [w EXCEPT !.closed[h] = @ + 1]

\* a descent that keeps the old parent open
goto_next_dir_keepparent(w, ent, flt) ==
    IF flt = "fdopendir" THEN [rc |-> -1, w |-> w]
    ELSE LET ws == [w EXCEPT !.streams = @ + 1]
         IN  IF ent = NoName THEN [rc |-> 1, w |-> ws]
             ELSE IF flt = "openat" THEN [rc |-> -1, w |-> ws]
             ELSE LET w1 == fd_open(ws)
                  IN  [rc |-> 0,
                       w |-> [w1 EXCEPT !.parentfd = w.fd, !.parenth = w.fdh,
                                        !.fd = Append(w.fd, ent), !.fdh = w1.nopen,
                                        !.name = ent]]

goto_next_dir(w, ent, flt) ==
    IF flt = "fdopendir" THEN [rc |-> -1, w |-> w]
    ELSE LET ws == [w EXCEPT !.streams = @ + 1]
         IN  IF ent = NoName THEN [rc |-> 1, w |-> ws]
             ELSE IF flt = "openat" THEN [rc |-> -1, w |-> ws]
             ELSE LET w1 == fd_open(ws)
                      w2 == fd_close(w1, w.parenth)
                  IN  [rc |-> 0,
                       w |-> [w2 EXCEPT !.parentfd = w.fd, !.parenth = w.fdh,
                                        !.fd = Append(w.fd, ent), !.fdh = w1.nopen,
                                        !.name = ent]]

\* rm_tree before its open
rm_tree_init(path, dirs) ==
    [path |-> path, fd |-> NoFd, parentfd |-> NoFd, name |-> NoName,
     level |-> 0, ret |-> 0, pc |-> "init", dirs |-> dirs, rmfailed |-> FALSE,
     fdh |-> 0, parenth |-> 0, nopen |-> 0, closed |-> << >>, peak |-> 0,
     streams |-> 0, rootrm |-> 0, rootfailed |-> FALSE]

\* an open that takes a missing directory for an error
rm_tree_open_noent(path, dirs, flt) ==
    LET w0 == [rm_tree_init(path, dirs) EXCEPT !.pc = "done"]
        w1 == fd_open(w0)
    IN  IF ~Exists(dirs, path) \/ flt = "open" THEN [w0 EXCEPT !.ret = -1]
        ELSE IF flt = "fstat" THEN [fd_close(w1, w1.nopen) EXCEPT !.ret = -1]
        ELSE [w1 EXCEPT !.fd = path, !.fdh = w1.nopen, !.pc = "loop"]

rm_tree_open(path, dirs, flt) ==
    LET w0 == [rm_tree_init(path, dirs) EXCEPT !.pc = "done"]
        w1 == fd_open(w0)
    IN  IF ~Exists(dirs, path) THEN w0
        ELSE IF flt = "open" THEN [w0 EXCEPT !.ret = -1]
        ELSE IF flt = "fstat" THEN [fd_close(w1, w1.nopen) EXCEPT !.ret = -1]
        ELSE [w1 EXCEPT !.fd = path, !.fdh = w1.nopen, !.pc = "loop"]

\* an ascent that keeps name after the removal
rm_tree_iter_keepname(w, ent, flt, eb) ==
    LET g == goto_next_dir(w, ent, flt)
        v == g.w
    IN  IF g.rc = 0
        THEN [v EXCEPT !.level = w.level + 1,
                       !.pc = IF w.level + 1 >= 0 THEN "loop" ELSE "exit"]
        ELSE IF g.rc = -1 THEN [v EXCEPT !.ret = -1, !.pc = "exit"]
        ELSE IF flt = "fstat" THEN [v EXCEPT !.ret = -1, !.pc = "exit"]
        ELSE IF v.fd = v.path THEN [v EXCEPT !.pc = "exit"]
        ELSE IF flt = "dotdot" THEN [v EXCEPT !.ret = -1, !.pc = "exit"]
        ELSE LET v0 == fd_open(v)
                 w1 == [fd_close(v0, v.fdh) EXCEPT
                           !.fd = v.parentfd, !.fdh = v.parenth,
                           !.parentfd = Parent(v.parentfd), !.parenth = v0.nopen]
                 d == Append(w1.fd, v.name)
             IN  IF v.name # NoName /\ rmdir_retry(v.dirs, d, eb) # 0
                 THEN [w1 EXCEPT !.ret = -1, !.pc = "exit", !.rmfailed = TRUE]
                 ELSE [w1 EXCEPT !.dirs = IF v.name # NoName THEN @ \ {d} ELSE @,
                                 !.level = w.level - 1,
                                 !.pc = IF w.level - 1 >= 0 THEN "loop" ELSE "exit"]

rm_tree_iter(w, ent, flt, eb) ==
    LET g == goto_next_dir(w, ent, flt)
        v == g.w
    IN  IF g.rc = 0
        THEN [v EXCEPT !.level = w.level + 1,
                       !.pc = IF w.level + 1 >= 0 THEN "loop" ELSE "exit"]
        ELSE IF g.rc = -1 THEN [v EXCEPT !.ret = -1, !.pc = "exit"]
        ELSE IF flt = "fstat" THEN [v EXCEPT !.ret = -1, !.pc = "exit"]
        \* st.st_ino == pst.st_ino: fd is open on the root
        ELSE IF v.fd = v.path THEN [v EXCEPT !.pc = "exit"]
        ELSE IF flt = "dotdot" THEN [v EXCEPT !.ret = -1, !.pc = "exit"]
        \* pfd = openat(parentfd, ".."); close(fd); fd = parentfd; parentfd = pfd
        ELSE LET v0 == fd_open(v)
                 w1 == [fd_close(v0, v.fdh) EXCEPT
                           !.fd = v.parentfd, !.fdh = v.parenth,
                           !.parentfd = Parent(v.parentfd), !.parenth = v0.nopen]
                 d == Append(w1.fd, v.name)
             IN  IF v.name # NoName /\ rmdir_retry(v.dirs, d, eb) # 0
                 THEN [w1 EXCEPT !.ret = -1, !.pc = "exit", !.rmfailed = TRUE]
                 ELSE [w1 EXCEPT !.dirs = IF v.name # NoName THEN @ \ {d} ELSE @,
                                 !.name = NoName,
                                 !.level = w.level - 1,
                                 !.pc = IF w.level - 1 >= 0 THEN "loop" ELSE "exit"]

\* after the loop: both handles are closed and the root is removed with one
\* rmdir, whose result is dropped
rmdir_ok(dirs, d, eb) == unlinkat_answer(dirs, d) = "ok" /\ EbusyOf(eb, d) = 0

\* an exit that leaves the root where it is
rm_tree_exit_keep(w, eb) ==
    [fd_close(fd_close(w, w.fdh), w.parenth) EXCEPT
        !.fd = NoFd, !.parentfd = NoFd, !.fdh = 0, !.parenth = 0, !.pc = "done"]

\* an exit that closes fd only
rm_tree_exit_fdonly(w, eb) ==
    [fd_close(w, w.fdh) EXCEPT
        !.fd = NoFd, !.parentfd = NoFd, !.fdh = 0, !.parenth = 0, !.pc = "done",
        !.dirs = IF rmdir_ok(w.dirs, w.path, eb) THEN @ \ {w.path} ELSE @,
        !.rmfailed = @ \/ ~rmdir_ok(w.dirs, w.path, eb),
        !.rootrm = @ + 1, !.rootfailed = ~rmdir_ok(w.dirs, w.path, eb)]

\* an exit that returns the failure of the root's rmdir
rm_tree_exit_checked(w, eb) ==
    [fd_close(fd_close(w, w.fdh), w.parenth) EXCEPT
        !.fd = NoFd, !.parentfd = NoFd, !.fdh = 0, !.parenth = 0, !.pc = "done",
        !.dirs = IF rmdir_ok(w.dirs, w.path, eb) THEN @ \ {w.path} ELSE @,
        !.rmfailed = @ \/ ~rmdir_ok(w.dirs, w.path, eb),
        !.rootrm = @ + 1, !.rootfailed = ~rmdir_ok(w.dirs, w.path, eb),
        !.ret = IF rmdir_ok(w.dirs, w.path, eb) THEN @ ELSE -1]

rm_tree_exit(w, eb) ==
    [fd_close(fd_close(w, w.fdh), w.parenth) EXCEPT
        !.fd = NoFd, !.parentfd = NoFd, !.fdh = 0, !.parenth = 0, !.pc = "done",
        !.dirs = IF rmdir_ok(w.dirs, w.path, eb) THEN @ \ {w.path} ELSE @,
        !.rmfailed = @ \/ ~rmdir_ok(w.dirs, w.path, eb),
        !.rootrm = @ + 1, !.rootfailed = ~rmdir_ok(w.dirs, w.path, eb)]

\* the names of the subdirectories of d
EntNames(dirs, d) == {x[Len(x)] : x \in Subdirs(dirs, d)}

\* the first name of ord (an enumeration order) that is a subdirectory of d
FirstEnt(dirs, d, ord) ==
    IF EntNames(dirs, d) = {} THEN NoName
    ELSE ord[Min({k \in 1..Len(ord) : ord[k] \in EntNames(dirs, d)})]

\* the whole walk with nothing failing but removals (eb), the directories
\* being enumerated in the order ord
RECURSIVE rm_tree_run(_, _, _)
rm_tree_run(w, eb, ord) ==
    IF w.pc = "done" THEN w
    ELSE IF w.pc = "exit" THEN rm_tree_exit(w, eb)
    ELSE rm_tree_run(rm_tree_iter(w, FirstEnt(w.dirs, w.fd, ord), "none", eb), eb, ord)

rm_tree(path, dirs, eb, ord) == rm_tree_run(rm_tree_open(path, dirs, "none"), eb, ord)

(***************************************************************************)
(* The state.                                                              *)
(***************************************************************************)
VARIABLES
    proc_mounts,    \* /proc/mounts of the host
    mount_path,     \* cg_ctl_map[i].mount_path, NULL until resolved
    dirs,           \* the directories below the cgroup mount points
    busy,           \* the directories that hold task references (rmdir: EBUSY)
    call,           \* the lifecycle call that has just returned
    since_new,      \* a cg_new_cgroup returned 0 and no lifecycle call since
    thr,            \* the threads calling cg_get_ctl: where each one is
    mtx,            \* cg_ctl_map_mtx: the thread that holds it, 0 when free
    scans,          \* per controller, what its callers did and got so far
    walk,           \* a running rm_tree
    retry,          \* a running rmdir_retry
    cgroups,        \* /proc/cgroups: the names of the live controllers
    bindm,          \* the mounts below the container's root, in mount order
    bres,           \* the bindmount_env_cgroup call that has just ended
    mask,           \* a cg_env_set_cpumask / cg_env_set_nodemask call
    frz,            \* freezer.state of the container and a cg_freezer_cmd call
    rate,           \* cpu.rate of the container and the cpulimit calls
    units,          \* cpu.shares of the container and a cg_env_set_cpuunits call
    slc             \* cg_get_slice_name: its statics and the threads calling it

hostVars == <<proc_mounts, mount_path>>
lifeVars == <<dirs, busy, call, since_new>>
ctlVars == <<thr, mtx, scans>>
rmVars == <<walk>>
retryVars == <<retry>>
bindVars == <<cgroups, bindm, bres>>
maskVars == <<mask>>
paramVars == <<frz, rate, units, slc>>
vars == <<hostVars, lifeVars, ctlVars, rmVars, retryVars, bindVars, maskVars, paramVars>>

\* call: op, ctid, ret; flt: the kind of fault the host had for it; at: the
\* controller the call failed at (0: none); log: the cg_destroy calls it
\* made, in order, each with its result; made: how many directories of the
\* container its loop created; left: the directories it created that still
\* exist; lost: the directories it removed; had: every controller with a
\* mount had its directory before; absent: the container had no directory
\* before; after_new: since_new when it was called; rmfailed: a removal
\* failed in it
NoCall == [op |-> "none", ctid |-> "", ret |-> 0, flt |-> "none", at |-> 0,
           log |-> << >>, made |-> 0, left |-> {}, lost |-> {}, had |-> FALSE,
           absent |-> FALSE, after_new |-> FALSE, rmfailed |-> FALSE]

\* the directories that belong to container ctid, under any mount
CtidDirs(ds, ctid) ==
    {d \in ds : \E k \in 1..Len(d) : d[k] = ctid \/ d[k] = SYSTEMD_CTID_SCOPE(ctid)}

BusyEnv(b) == [d \in b |-> Forever]
Orders == {<<"a", "b">>, <<"b", "a">>}

\* the components a specification does not drive stay as they are here
IdleLife == dirs = {} /\ busy = {} /\ call = NoCall /\ since_new = FALSE
IdleCtl == thr = << >> /\ mtx = 0 /\ scans = << >>
IdleRm == walk = << >>
IdleRetry == retry = << >>
IdleBind == cgroups = {} /\ bindm = << >> /\ bres = << >>
IdleMask == mask = << >>
IdleFreeze == frz = << >>
IdleRate == rate = << >>
IdleUnits == units = << >>
IdleSlice == slc = << >>
IdleParam == IdleFreeze /\ IdleRate /\ IdleUnits /\ IdleSlice

(***************************************************************************)
(* make_dir(path, 1) of util.c: creates the missing directories of path    *)
(* from the top; failAt is the length of the prefix whose mkdir fails (0:  *)
(* none does).                                                             *)
(***************************************************************************)
make_dir(ds, path, failAt) ==
    LET missing == {d \in Prefixes(path) : d \notin ds}
    IN  IF \E d \in missing : Len(d) = failAt
        THEN [ret |-> VZCTL_E_CREATE_DIR,
              dirs |-> ds \cup {d \in missing : Len(d) < failAt}]
        ELSE [ret |-> 0, dirs |-> ds \cup missing]

cg_create(ctid, i, mp, ds, failAt) ==
    make_dir(ds, get_cgroup_name(ctid, i, mp[i]), failAt)

\* ran: rm_tree was called; rmfailed: a removal failed in it
cg_destroy(ctid, i, mp, ds, eb, ord) ==
    IF mp[i] = NULL THEN [ret |-> 0, dirs |-> ds, ran |-> FALSE, rmfailed |-> FALSE]
    ELSE LET w == rm_tree(get_cgroup_name(ctid, i, mp[i]), ds, eb, ord)
         IN  [ret |-> IF w.ret # 0 THEN VZCTL_E_SYSTEM ELSE 0, dirs |-> w.dirs,
              ran |-> TRUE, rmfailed |-> w.rmfailed]

(***************************************************************************)
(* cg_new_cgroup.  flt is what fails in this call: at controller flt.at,   *)
(* flt.kind is "fopen" or "nomem" (in cg_get_ctl) or "mkdir" (in make_dir, *)
(* at the prefix of length flt.depth).                                     *)
(***************************************************************************)
NoFault == [at |-> 0, kind |-> "none", depth |-> 0]
NewFaults ==
    {NoFault}
    \cup [at : Ctls, kind : {"fopen", "nomem"}, depth : {0}]
    \cup [at : Ctls, kind : {"mkdir"}, depth : {2, 3}]

\* (variant: a controller without a mount is a failure of the loop)
RECURSIVE new_loop_strict(_, _, _, _, _, _)
new_loop_strict(ctid, i, mp, ds, table, flt) ==
    IF i > NCtl THEN [ret |-> 0, i |-> i, mount_path |-> mp, dirs |-> ds]
    ELSE LET g == cg_get_ctl(i, mp, table, IF flt.at = i THEN flt.kind ELSE "none")
         IN  IF g.ret # 0
             THEN [ret |-> g.ret, i |-> i, mount_path |-> g.mount_path, dirs |-> ds]
             ELSE LET c == cg_create(ctid, i, g.mount_path, ds,
                               IF flt.at = i /\ flt.kind = "mkdir" THEN flt.depth ELSE 0)
                  IN  IF c.ret # 0
                      THEN [ret |-> c.ret, i |-> i, mount_path |-> g.mount_path,
                            dirs |-> c.dirs]
                      ELSE new_loop_strict(ctid, i + 1, g.mount_path, c.dirs, table, flt)

\* the loop of lines 562-573, from controller i on: where it ended and how
RECURSIVE new_loop(_, _, _, _, _, _)
new_loop(ctid, i, mp, ds, table, flt) ==
    IF i > NCtl THEN [ret |-> 0, i |-> i, mount_path |-> mp, dirs |-> ds]
    ELSE LET g == cg_get_ctl(i, mp, table, IF flt.at = i THEN flt.kind ELSE "none")
         IN  IF g.ret = -1
             THEN [ret |-> -1, i |-> i, mount_path |-> g.mount_path, dirs |-> ds]
             ELSE IF g.ret # 0
             THEN new_loop(ctid, i + 1, g.mount_path, ds, table, flt)
             ELSE LET c == cg_create(ctid, i, g.mount_path, ds,
                               IF flt.at = i /\ flt.kind = "mkdir" THEN flt.depth ELSE 0)
                  IN  IF c.ret # 0
                      THEN [ret |-> c.ret, i |-> i, mount_path |-> g.mount_path,
                            dirs |-> c.dirs]
                      ELSE new_loop(ctid, i + 1, g.mount_path, c.dirs, table, flt)

\* the loop of lines 576-577, from controller j down to the first one
LogEntry(j, r) == [ctl |-> j, ret |-> r.ret, ran |-> r.ran, rmfailed |-> r.rmfailed]

RECURSIVE rollback_gt0(_, _, _, _, _, _, _)
rollback_gt0(ctid, j, mp, ds, eb, ord, log) ==
    IF j <= 1 THEN [dirs |-> ds, log |-> log]
    ELSE LET r == cg_destroy(ctid, j, mp, ds, eb, ord)
         IN  rollback_gt0(ctid, j - 1, mp, r.dirs, eb, ord, Append(log, LogEntry(j, r)))

RECURSIVE rollback(_, _, _, _, _, _, _)
rollback(ctid, j, mp, ds, eb, ord, log) ==
    IF j < 1 THEN [dirs |-> ds, log |-> log]
    ELSE LET r == cg_destroy(ctid, j, mp, ds, eb, ord)
         IN  rollback(ctid, j - 1, mp, r.dirs, eb, ord, Append(log, LogEntry(j, r)))

\* every controller of the table that has a mount has its directory for ctid
HadAll(ctid) ==
    \A i \in Ctls :
        LET r == scan(i, proc_mounts, TRUE)
        IN  r.ret = 0 => get_cgroup_name(ctid, i, r.out) \in dirs

\* (f: the loop; u: the rollback, run when the loop failed)
cg_new_cgroup(ctid, flt, ord) ==
    \E f \in {new_loop(ctid, 1, mount_path, dirs, proc_mounts, flt)} :
    \E u \in {IF f.ret = 0 THEN [dirs |-> f.dirs, log |-> << >>]
               ELSE rollback(ctid, f.i - 1, f.mount_path, f.dirs, BusyEnv(busy),
                             ord, << >>)} :
        /\ mount_path' = f.mount_path
        /\ dirs' = u.dirs
        /\ call' = [op |-> "new", ctid |-> ctid, ret |-> f.ret, flt |-> flt.kind,
                    at |-> IF f.ret = 0 THEN 0 ELSE f.i,
                    log |-> u.log,
                    made |-> Cardinality(CtidDirs(f.dirs \ dirs, ctid)),
                    left |-> u.dirs \ dirs,
                    lost |-> dirs \ u.dirs,
                    had |-> HadAll(ctid),
                    absent |-> CtidDirs(dirs, ctid) = {},
                    after_new |-> since_new,
                    rmfailed |-> \E k \in 1..Len(u.log) : u.log[k].rmfailed]
        /\ since_new' = (f.ret = 0)
        /\ UNCHANGED <<proc_mounts, busy>>
        /\ UNCHANGED <<ctlVars, rmVars, retryVars, bindVars, maskVars, paramVars>>

(***************************************************************************)
(* cg_destroy_cgroup.  unreadable: the controllers at which the mount      *)
(* table cannot be opened during this call.                                *)
(***************************************************************************)
RECURSIVE destroy_loop(_, _, _, _, _, _, _, _, _, _)
destroy_loop(ctid, i, mp, ds, table, unreadable, eb, ord, ret, log) ==
    IF i > NCtl THEN [ret |-> ret, mount_path |-> mp, dirs |-> ds, log |-> log]
    ELSE LET g == cg_get_ctl(i, mp, table, IF i \in unreadable THEN "fopen" ELSE "none")
         IN  IF g.ret # 0
             THEN destroy_loop(ctid, i + 1, g.mount_path, ds, table, unreadable,
                               eb, ord, ret, log)
             ELSE LET r == cg_destroy(ctid, i, g.mount_path, ds, eb, ord)
                  IN  destroy_loop(ctid, i + 1, g.mount_path, r.dirs, table,
                                   unreadable, eb, ord, BitOr(ret, r.ret),
                                   Append(log, LogEntry(i, r)))

cg_destroy_cgroup(ctid, unreadable, ord) ==
    \E f \in {destroy_loop(ctid, 1, mount_path, dirs, proc_mounts, unreadable,
                            BusyEnv(busy), ord, 0, << >>)} :
        /\ mount_path' = f.mount_path
        /\ dirs' = f.dirs
        /\ call' = [op |-> "destroy", ctid |-> ctid, ret |-> f.ret,
                    flt |-> IF unreadable = {} THEN "none" ELSE "fopen", at |-> 0,
                    log |-> f.log, made |-> 0, left |-> {}, lost |-> dirs \ f.dirs,
                    had |-> HadAll(ctid), absent |-> CtidDirs(dirs, ctid) = {},
                    after_new |-> since_new,
                    rmfailed |-> \E k \in 1..Len(f.log) : f.log[k].rmfailed]
        /\ since_new' = FALSE
        /\ UNCHANGED <<proc_mounts, busy>>
        /\ UNCHANGED <<ctlVars, rmVars, retryVars, bindVars, maskVars, paramVars>>

\* the controllers whose scan this call can reach: not yet resolved
Unresolved == {i \in Ctls : mount_path[i] = NULL}
\* of these, the ones a failed scan makes a difference for
UnresolvedMounted ==
    {i \in Unresolved : scan(i, proc_mounts, TRUE).ret = 0}

(***************************************************************************)
(* The host around the library: other software creates directories below   *)
(* a container's cgroup, tasks linger in a cgroup and drain.               *)
(***************************************************************************)
Extra(ds) == {d \in ds : \E k \in 1..Len(d) : d[k] \in SubNames}
DepthBelow(d) == Cardinality({k \in 1..Len(d) : d[k] \in SubNames})

EnvMkdir ==
    /\ call = NoCall
    /\ Cardinality(Extra(dirs)) < MaxSubdirs
    /\ \E ctid \in CTIDs : \E p \in CtidDirs(dirs, ctid) : \E n \in SubNames :
          /\ Append(p, n) \notin dirs
          /\ DepthBelow(p) < Cardinality(SubNames)
          \* names are taken in order: "b" only beside an "a"
          /\ n = "b" => Append(p, "a") \in dirs
          /\ dirs' = dirs \cup {Append(p, n)}
    /\ call' = NoCall
    /\ UNCHANGED <<proc_mounts, mount_path, busy, since_new>>
    /\ UNCHANGED <<ctlVars, rmVars, retryVars, bindVars, maskVars, paramVars>>

EnvAttach ==
    /\ call = NoCall
    /\ Cardinality(busy) < MaxBusy
    /\ \E ctid \in CTIDs : \E d \in CtidDirs(dirs, ctid) \ busy : busy' = busy \cup {d}
    /\ call' = NoCall
    /\ UNCHANGED <<proc_mounts, mount_path, dirs, since_new>>
    /\ UNCHANGED <<ctlVars, rmVars, retryVars, bindVars, maskVars, paramVars>>

EnvDrain ==
    /\ call = NoCall
    /\ \E d \in busy : busy' = busy \ {d}
    /\ call' = NoCall
    /\ UNCHANGED <<proc_mounts, mount_path, dirs, since_new>>
    /\ UNCHANGED <<ctlVars, rmVars, retryVars, bindVars, maskVars, paramVars>>

\* the faults that can strike this call: a scan fails only where a scan is
\* made, xstrdup only where a mount was found, mkdir only where there is one
Mounted == {i \in Ctls : scan(i, proc_mounts, TRUE).ret = 0}
\* a failed scan at a controller without a mount does the same wherever it
\* happens between two controllers that have one: it is let happen at the
\* first controller, at the last, at those with a mount and right after them
ScanSites ==
    {i \in Unresolved : i = 1 \/ i = NCtl \/ i \in Mounted \/ i - 1 \in Mounted}
LiveFaults ==
    {NoFault}
    \cup [at : ScanSites, kind : {"fopen"}, depth : {0}]
    \cup [at : UnresolvedMounted, kind : {"nomem"}, depth : {0}]
    \cup [at : Mounted, kind : {"mkdir"}, depth : {2, 3}]

\* the enumeration order matters only where a directory has two entries
LiveOrders ==
    IF \E d \in dirs : Cardinality(Subdirs(dirs, d)) > 1 THEN Orders
    ELSE {<<"a", "b">>}

New ==
    /\ call = NoCall
    /\ \E ctid \in CTIDs : \E flt \in LiveFaults : \E ord \in LiveOrders :
          cg_new_cgroup(ctid, flt, ord)

Destroy ==
    /\ call = NoCall
    /\ \E ctid \in CTIDs : \E u \in SUBSET UnresolvedMounted : \E ord \in LiveOrders :
          cg_destroy_cgroup(ctid, u, ord)

\* the caller has taken the result of the call
Return ==
    /\ call # NoCall
    /\ call' = NoCall
    /\ UNCHANGED <<proc_mounts, mount_path, dirs, busy, since_new>>
    /\ UNCHANGED <<ctlVars, rmVars, retryVars, bindVars, maskVars, paramVars>>

InitLife ==
    /\ proc_mounts \in MountTables({4}, {2, 5, 6})
    /\ mount_path = [i \in Ctls |-> NULL]
    /\ IdleLife /\ IdleCtl /\ IdleRm /\ IdleRetry /\ IdleBind /\ IdleMask /\ IdleParam

NextLife == New \/ Destroy \/ Return \/ EnvMkdir \/ EnvAttach \/ EnvDrain

SpecLife == InitLife /\ [][NextLife]_vars

(***************************************************************************)
(* Properties of the lifecycle (SpecLife).                                 *)
(***************************************************************************)
LogCtls(log) == {log[k].ctl : k \in 1..Len(log)}
Resolved == {i \in Ctls : mount_path[i] # NULL}

C4_DestroyAggregates ==
    call.op = "destroy" =>
        /\ LogCtls(call.log) = Resolved
        /\ \A k \in 1..Len(call.log) : call.log[k].ran
        /\ \A k, l \in 1..Len(call.log) : k < l => call.log[k].ctl < call.log[l].ctl
        /\ call.ret # 0 <=> \E k \in 1..Len(call.log) : call.log[k].ret # 0
        /\ call.ret \in {0, VZCTL_E_SYSTEM}

\* a destroy in which a removal failed and a later one succeeded and removed
\* a directory
C4_Witness ==
    /\ call.op = "destroy" /\ call.ret # 0
    /\ \E k, l \in 1..Len(call.log) :
          k < l /\ call.log[k].ret # 0 /\ call.log[l].ret = 0
    /\ call.lost # {}

\* the cgroup directory of container ctid under controller i and its
\* ancestors
CtlDirs(ctid, i) ==
    Prefixes(get_cgroup_name(ctid, i, scan(i, proc_mounts, TRUE).out))

\* C16: a controller of the table without a line in the mount table is
\* skipped by cg_new_cgroup: it stays unresolved, no directory is made for
\* it and the call does not fail at it, whichever controller it is, the
\* last one included; a create fails only where a step of its own fails,
\* at a controller that has a mount or at a scan that cannot read the
\* table, and one in which nothing fails returns 0 with the directory of
\* every controller that has a mount in place.
C16_UnresolvedSkipped ==
    call.op = "new" =>
        /\ \A i \in Ctls \ Mounted : mount_path[i] = NULL
        /\ call.left \subseteq UNION {CtlDirs(call.ctid, i) : i \in Mounted}
        /\ call.ret # 0 => call.flt # "none"
        /\ (call.ret # 0 /\ call.flt \in {"mkdir", "nomem"}) => call.at \in Mounted
        /\ call.flt = "none" =>
              /\ call.ret = 0
              /\ \A i \in Mounted :
                    get_cgroup_name(call.ctid, i, mount_path[i]) \in dirs

\* a create that returned 0 and made directories under two mounts while the
\* first controller after a mounted one, and the last of the table, have no
\* mount
C16_Witness ==
    /\ call.op = "new" /\ call.flt = "none" /\ call.ret = 0
    /\ NCtl \notin Mounted
    /\ \E i \in Mounted : i + 1 \in Ctls \ Mounted
    /\ Cardinality({d[1] : d \in CtidDirs(call.left, call.ctid)}) >= 2

\* C23 as stated: a cg_new_cgroup that fails removes no directory that
\* existed before the call: the directories of the container made by an
\* earlier create, and what lies below them, are still there.
C23_FailedCreateKeepsExisting ==
    (call.op = "new" /\ call.ret # 0) => call.lost = {}

\* what holds instead: a failed create removes nothing of a container that
\* had no directory before; what it removes are directories of its own
\* container (never the slice directory above them), under the mounts of
\* the controllers before the one it failed at.
C23_FailedCreateRemovesOwn ==
    (call.op = "new" /\ call.ret # 0) =>
        /\ call.lost = CtidDirs(call.lost, call.ctid)
        /\ call.absent => call.lost = {}
        /\ \A d \in call.lost : \E i \in 1..(call.at - 1) : d[1] = mount_path[i]

\* a create right after a successful one of the same container fails at a
\* scan of the mount table and removes the directories the first one made
\* under two mounts, with a directory made below them in between
C23_RemovesEarlier ==
    /\ call.op = "new" /\ call.ret = 0 - 1 /\ call.flt = "fopen"
    /\ call.made = 0 /\ ~call.absent
    /\ Extra(call.lost) # {}
    /\ Cardinality({d[1] : d \in CtidDirs(call.lost, call.ctid)}) >= 2

(***************************************************************************)
(* SpecRetry: rmdir_retry on one directory, one iteration of its loop per  *)
(* step; the kernel answers each unlinkat as it likes.  prev is how the    *)
(* call before this one went.                                              *)
(***************************************************************************)
IdleHost == proc_mounts = << >> /\ mount_path = [i \in Ctls |-> NULL]

NoRetry == [r |-> rmdir_retry_init, last |-> "none"]

InitRetry ==
    /\ retry = [cur |-> NoRetry, prev |-> NoRetry]
    /\ IdleHost /\ IdleLife /\ IdleCtl /\ IdleRm /\ IdleBind /\ IdleMask /\ IdleParam

RetryTry(out) ==
    /\ retry.cur.r.pc = "try"
    /\ retry' = [retry EXCEPT !.cur = [r |-> rmdir_retry_iter(retry.cur.r, out),
                                       last |-> out]]
    /\ UNCHANGED <<hostVars, lifeVars, ctlVars, rmVars, bindVars, maskVars, paramVars>>

RetryOk == RetryTry("ok")
RetryBusy == RetryTry("EBUSY")
RetryOther == RetryTry("other")

\* the next directory
RetryNext ==
    /\ retry.cur.r.pc = "done"
    /\ retry.prev = NoRetry
    /\ retry' = [cur |-> NoRetry, prev |-> retry.cur]
    /\ UNCHANGED <<hostVars, lifeVars, ctlVars, rmVars, bindVars, maskVars, paramVars>>

NextRetry == RetryOk \/ RetryBusy \/ RetryOther \/ RetryNext

SpecRetry == InitRetry /\ [][NextRetry]_vars

\* C6: rmdir_retry on a directory whose removal answers EBUSY three times
\* and then succeeds returns 0, having slept less than 30 s in all (70 ms);
\* on a directory whose removal answers EBUSY every time it returns -1, and
\* not before it has slept 30 s in all: as long as it goes on its total is
\* below 30 s and grows by at least 10 ms with every sleep.
C6_RetryBudget ==
    LET c == retry.cur.r
    IN  /\ (c.pc = "done" /\ retry.cur.last = "ok" /\ c.sleeps = 3) =>
              (c.ret = 0 /\ c.calls = 4 /\ c.total = 70000 /\ c.total < timeout)
        /\ (c.pc = "done" /\ retry.cur.last = "EBUSY") =>
              (c.ret = -1 /\ c.total >= timeout /\ c.calls = c.sleeps)
        /\ c.pc = "try" =>
              (c.total < timeout /\ c.total >= c.sleeps * wait0 /\ c.calls = c.sleeps)

\* a call that succeeded after three EBUSY answers, and then a call that
\* gave up on a directory that stayed busy
C6_Witness ==
    /\ retry.prev.r.pc = "done" /\ retry.prev.last = "ok"
    /\ retry.prev.r.sleeps = 3 /\ retry.prev.r.ret = 0
    /\ retry.cur.r.pc = "done" /\ retry.cur.last = "EBUSY"
    /\ retry.cur.r.ret = -1 /\ retry.cur.r.sleeps > 3

(***************************************************************************)
(* SpecRm: rm_tree on one tree, one iteration of its loop per step.        *)
(* tree0 is the tree it starts on (empty: the root does not exist), eb the *)
(* directories that hold tasks, visits how often each directory was        *)
(* entered (the root by the open of line 452, the others by a descent of   *)
(* goto_next_dir), faulted whether an open, scan or stat has failed.       *)
(***************************************************************************)
RmRoot == <<"/cg/ve", "101">>

RECURSIVE Grow(_)
Grow(n) ==
    IF n = 0 THEN {{RmRoot}}
    ELSE LET T == Grow(n - 1)
         IN  T \cup UNION {{t \cup {Append(p, nm)} : p \in t, nm \in SubNames} : t \in T}

RmTrees == {{}} \cup Grow(MaxNodes)

IsChain(t) == \A d \in t : Cardinality(Subdirs(t, d)) <= 1
IsLeaf(t, d) == Subdirs(t, d) = {}

\* a busy directory answers EBUSY three times, or for ever
BusyTimes == {3, Forever}

InitRm ==
    /\ \E t \in RmTrees : \E b \in {x \in SUBSET t : Cardinality(x) <= MaxBusy} :
       \E n \in BusyTimes :
          walk = [tree0 |-> t, eb |-> [d \in b |-> n], visits |-> [d \in t |-> 0],
                  faulted |-> FALSE,
                  w |-> rm_tree_init(RmRoot, t)]
    /\ IdleHost /\ IdleLife /\ IdleCtl /\ IdleRetry /\ IdleBind /\ IdleMask /\ IdleParam

Entered(v, d) == IF d \in DOMAIN v THEN [v EXCEPT ![d] = @ + 1] ELSE v

RmOpen ==
    /\ walk.w.pc = "init"
    /\ \E flt \in {"none", "open", "fstat"} :
       \E w1 \in {rm_tree_open(RmRoot, walk.tree0, flt)} :
          walk' = [walk EXCEPT !.w = w1,
                               !.visits = IF w1.pc = "loop" THEN Entered(@, RmRoot) ELSE @,
                               !.faulted = w1.ret # 0]
    /\ UNCHANGED <<hostVars, lifeVars, ctlVars, retryVars, bindVars, maskVars, paramVars>>

RmIter ==
    /\ walk.w.pc = "loop"
    /\ \E flt \in {"none", "fdopendir", "openat", "fstat", "dotdot"} :
       \E ord \in Orders :
       \E w1 \in {rm_tree_iter(walk.w, FirstEnt(walk.w.dirs, walk.w.fd, ord), flt,
                               walk.eb)} :
          walk' = [walk EXCEPT !.w = w1,
                               !.visits = IF w1.level > walk.w.level
                                          THEN Entered(@, w1.fd) ELSE @,
                               !.faulted = @ \/ (w1.ret # 0 /\ ~w1.rmfailed)]
    /\ UNCHANGED <<hostVars, lifeVars, ctlVars, retryVars, bindVars, maskVars, paramVars>>

RmExit ==
    /\ walk.w.pc = "exit"
    /\ walk' = [walk EXCEPT !.w = rm_tree_exit(walk.w, walk.eb)]
    /\ UNCHANGED <<hostVars, lifeVars, ctlVars, retryVars, bindVars, maskVars, paramVars>>

NextRm == RmOpen \/ RmIter \/ RmExit

SpecRm == InitRm /\ [][NextRm]_vars

\* the walk is over, and it was over a chain of nested directories none of
\* which held a task, with no open, scan or stat failing
ChainDone ==
    /\ walk.w.pc = "done"
    /\ walk.tree0 # {} /\ IsChain(walk.tree0)
    /\ DOMAIN walk.eb = {}
    /\ ~walk.faulted

HeldFds(w) == {w.fdh, w.parenth} \ {0}

C15_ClosedOnce ==
    /\ \A h \in 1..walk.w.nopen : walk.w.closed[h] <= 1
    /\ walk.w.pc = "done" => \A h \in 1..walk.w.nopen : walk.w.closed[h] = 1
    /\ walk.w.pc \in {"loop", "exit"} => LiveFds(walk.w) = HeldFds(walk.w)
    /\ walk.w.pc \in {"init", "done"} => HeldFds(walk.w) = {}

\* a walk that gave up on a directory that stayed busy, two levels down,
\* has returned
C15_Witness ==
    /\ walk.w.pc = "done" /\ walk.w.ret = -1
    /\ walk.w.rmfailed /\ ~walk.faulted
    /\ walk.w.nopen >= 4
    /\ \A h \in 1..walk.w.nopen : walk.w.closed[h] = 1

(***************************************************************************)
(* SpecCtl: threads calling cg_get_ctl, one step per statement that reads  *)
(* or writes shared state.  For each controller scans keeps: n, the scans  *)
(* of /proc/mounts made for it (the table was opened and read); stores,    *)
(* the times its mount_path was written; answers, what its callers got     *)
(* (the result and the mount_path they find in the entry); faulted,        *)
(* whether an fopen or an xstrdup has failed in a call for it.             *)
(***************************************************************************)
Threads == 1..MaxThreads
\* the names the callers ask for: with one or two mounts, maybe with none,
\* and one that is not in cg_ctl_map
CallNames == {"cpu", "memory", "fuse"}
CallCtls == {find_cg_ctl(n) : n \in CallNames} \ {0}

IdleThread == [pc |-> "idle", ctl |-> 0, ret |-> 0, buf |-> NULL]

InitCtl ==
    /\ proc_mounts \in MountTables({4}, {1, 2, 3})
    /\ mount_path = [i \in Ctls |-> NULL]
    /\ thr = [t \in Threads |-> IdleThread]
    /\ mtx = 0
    /\ scans = [i \in CallCtls |->
                   [n |-> 0, stores |-> 0, answers |-> {}, faulted |-> FALSE,
                    calls |-> 0]]
    /\ IdleLife /\ IdleRm /\ IdleRetry /\ IdleBind /\ IdleMask /\ IdleParam

CallsMade == LET RECURSIVE Sum(_)
                 Sum(S) == IF S = {} THEN 0
                           ELSE LET i == CHOOSE x \in S : TRUE
                                IN  scans[i].calls + Sum(S \ {i})
             IN  Sum(CallCtls)

CtlFrame == UNCHANGED <<proc_mounts, lifeVars, rmVars, retryVars, bindVars, maskVars, paramVars>>

\* lines 137-139: find_cg_ctl; an unknown name returns -1 at once
CtlCall(t) ==
    /\ thr[t].pc = "idle"
    /\ CallsMade < MaxCalls
    /\ \E n \in CallNames :
          LET i == find_cg_ctl(n)
          IN  IF i = 0
              THEN /\ thr' = [thr EXCEPT ![t] = [IdleThread EXCEPT !.ret = -1]]
                   /\ UNCHANGED scans
              ELSE /\ thr' = [thr EXCEPT ![t] = [IdleThread EXCEPT !.pc = "lock", !.ctl = i]]
                   /\ scans' = [scans EXCEPT ![i].calls = @ + 1]
    /\ UNCHANGED <<mount_path, mtx>>
    /\ CtlFrame

\* a lock that never waits
mtx_free_always(m) == TRUE

\* line 141: pthread_mutex_lock returns once the mutex is free
mtx_free(m) == m = 0

CtlLock(t) ==
    /\ thr[t].pc = "lock"
    /\ mtx_free(mtx)
    /\ mtx' = t
    /\ thr' = [thr EXCEPT ![t].pc = "check"]
    /\ UNCHANGED <<mount_path, scans>>
    /\ CtlFrame

\* lines 142-145
CtlCheck(t) ==
    /\ thr[t].pc = "check"
    /\ thr' = [thr EXCEPT ![t].pc = IF mount_path[thr[t].ctl] # NULL THEN "unlock"
                                    ELSE "scan",
                          ![t].ret = 0]
    /\ UNCHANGED <<mount_path, mtx, scans>>
    /\ CtlFrame

\* lines 147-153: get_mount_path into the local buffer
CtlScan(t) ==
    /\ thr[t].pc = "scan"
    /\ \E readable \in BOOLEAN :
          LET i == thr[t].ctl
              r == get_mount_path(cg_ctl_map[i].subsys, proc_mounts, readable)
          IN  /\ thr' = [thr EXCEPT ![t].ret = r.ret, ![t].buf = r.out,
                                    ![t].pc = IF r.ret # 0 THEN "unlock" ELSE "store"]
              /\ scans' = [scans EXCEPT ![i].n = IF readable THEN @ + 1 ELSE @,
                                        ![i].faulted = @ \/ ~readable]
    /\ UNCHANGED <<mount_path, mtx>>
    /\ CtlFrame

\* lines 155-158: xstrdup into the entry
CtlStore(t) ==
    /\ thr[t].pc = "store"
    /\ \E nomem \in BOOLEAN :
          LET i == thr[t].ctl
          IN  IF nomem
              THEN /\ thr' = [thr EXCEPT ![t].ret = -1, ![t].pc = "unlock"]
                   /\ scans' = [scans EXCEPT ![i].faulted = TRUE]
                   /\ UNCHANGED mount_path
              ELSE /\ thr' = [thr EXCEPT ![t].pc = "unlock"]
                   /\ mount_path' = [mount_path EXCEPT ![i] = thr[t].buf]
                   /\ scans' = [scans EXCEPT ![i].stores = @ + 1]
    /\ UNCHANGED mtx
    /\ CtlFrame

\* lines 161-164: unlock and return; the caller has ret and the entry
CtlUnlock(t) ==
    /\ thr[t].pc = "unlock"
    /\ mtx' = 0
    /\ LET i == thr[t].ctl
       IN  scans' = [scans EXCEPT ![i].answers =
                        @ \cup {[ret |-> thr[t].ret, path |-> mount_path[i]]}]
    /\ thr' = [thr EXCEPT ![t] = [IdleThread EXCEPT !.ret = thr[t].ret]]
    /\ UNCHANGED mount_path
    /\ CtlFrame

NextCtl == \E t \in Threads :
              CtlCall(t) \/ CtlLock(t) \/ CtlCheck(t) \/ CtlScan(t) \/ CtlStore(t)
                  \/ CtlUnlock(t)

SpecCtl == InitCtl /\ [][NextCtl]_vars

Bits == 0..(MaskBits - 1)
\* a text that is not a list of ranges: its range runs backwards
Garbage == <<<<1, 0>>>>

Runs(S) == {<<lo, hi>> \in S \X S :
               /\ lo <= hi
               /\ \A b \in lo..hi : b \in S
               /\ (lo - 1) \notin S /\ (hi + 1) \notin S}

RECURSIVE RunSeq(_)
RunSeq(R) ==
    IF R = {} THEN << >>
    ELSE LET first == CHOOSE r \in R : \A q \in R : r[1] <= q[1]
         IN  <<first>> \o RunSeq(R \ {first})

bitmap_snprintf(S) == RunSeq(Runs(S))

\* [ret, mask]: ret is non-zero when the text is not a list of ranges
vzctl2_bitmap_parse(text) ==
    IF \E k \in 1..Len(text) : text[k][1] > text[k][2] THEN [ret |-> -1, mask |-> {}]
    ELSE [ret |-> 0,
          mask |-> UNION {text[k][1]..text[k][2] : k \in 1..Len(text)} \cap Bits]

\* [nonempty, dst]
bitmap_and(a, b) == [nonempty |-> (a \cap b) # {}, dst |-> a \cap b]

MaskTexts == {bitmap_snprintf(S) : S \in SUBSET Bits}

\* a variant that writes the requested mask as it is
cg_env_set_mask_raw(name, cpumask, in) ==
    LET fail(code, d) == [ret |-> code, wrote |-> FALSE, text |-> << >>, diag |-> d]
        nodiag == [kind |-> "none", val |-> << >>, range |-> << >>]
        buf == IF in.mounted THEN in.avail ELSE in.junk
        p == vzctl2_bitmap_parse(buf)
    IN  IF in.mounted /\ in.flt = "read"
        THEN fail(VZCTL_E_CPUMASK, [nodiag EXCEPT !.kind = "get"])
        ELSE IF in.flt = "nomem" THEN fail(VZCTL_E_NOMEM, nodiag)
        ELSE IF p.ret # 0
        THEN fail(VZCTL_E_CPUMASK, [nodiag EXCEPT !.kind = "parse", !.range = buf])
        ELSE IF ~bitmap_and(p.mask, cpumask).nonempty
        THEN fail(VZCTL_E_CPUMASK,
                  [kind |-> "range", val |-> bitmap_snprintf(cpumask), range |-> buf])
        ELSE IF ~in.mounted \/ in.flt = "write"
        THEN fail(VZCTL_E_CPUMASK, [nodiag EXCEPT !.kind = "set"])
        ELSE [ret |-> 0, wrote |-> TRUE, text |-> bitmap_snprintf(cpumask),
              diag |-> nodiag]

\* in: what the host is like for this call.  mounted: cpuset has a mount;
\* avail: the text of the mask file of the slice; junk: what the buffer
\* holds when nothing was read into it; flt: what fails
cg_env_set_mask(name, cpumask, in) ==
    LET fail(code, d) == [ret |-> code, wrote |-> FALSE, text |-> << >>, diag |-> d]
        nodiag == [kind |-> "none", val |-> << >>, range |-> << >>]
        \* a cg_get_param that returns 1 (no mount) is not < 0: buf is used as
        \* it is
        buf == IF in.mounted THEN in.avail ELSE in.junk
        p == vzctl2_bitmap_parse(buf)
        m == bitmap_and(p.mask, cpumask)
    IN  IF in.mounted /\ in.flt = "read"
        THEN fail(VZCTL_E_CPUMASK, [nodiag EXCEPT !.kind = "get"])
        ELSE IF in.flt = "nomem" THEN fail(VZCTL_E_NOMEM, nodiag)
        ELSE IF p.ret # 0
        THEN fail(VZCTL_E_CPUMASK, [nodiag EXCEPT !.kind = "parse", !.range = buf])
        ELSE IF ~m.nonempty
        THEN fail(VZCTL_E_CPUMASK,
                  [kind |-> "range", val |-> bitmap_snprintf(cpumask), range |-> buf])
        ELSE IF ~in.mounted \/ in.flt = "write"
        THEN fail(VZCTL_E_CPUMASK, [nodiag EXCEPT !.kind = "set"])
        ELSE [ret |-> 0, wrote |-> TRUE, text |-> bitmap_snprintf(m.dst),
              diag |-> nodiag]

cg_env_set_cpumask(cpumask, in) == cg_env_set_mask("cpus", cpumask, in)
cg_env_set_nodemask(nodemask, in) == cg_env_set_mask("mems", nodemask, in)

MaskHosts ==
    [mounted : {TRUE}, avail : MaskTexts \cup {Garbage}, junk : {Garbage},
     flt : {"none", "read", "nomem", "write"}]
    \cup [mounted : {FALSE}, avail : {Garbage}, junk : {Garbage, << >>, <<<<0, 0>>>>},
          flt : {"none", "nomem"}]

\* wrote, file: the container's mask file was written, and its text
InitMask ==
    /\ \E name \in {"cpus", "mems"} : \E req \in SUBSET Bits : \E in \in MaskHosts :
          mask = [pc |-> "call", name |-> name, req |-> req, in |-> in,
                  ret |-> 0, wrote |-> FALSE, file |-> << >>,
                  diag |-> [kind |-> "none", val |-> << >>, range |-> << >>]]
    /\ IdleHost /\ IdleLife /\ IdleCtl /\ IdleRm /\ IdleRetry /\ IdleBind /\ IdleParam

MaskFrame == UNCHANGED <<hostVars, lifeVars, ctlVars, rmVars, retryVars, bindVars, paramVars>>

SetCpumask ==
    /\ mask.pc = "call" /\ mask.name = "cpus"
    /\ \E r \in {cg_env_set_cpumask(mask.req, mask.in)} :
          mask' = [mask EXCEPT !.pc = "done", !.ret = r.ret, !.diag = r.diag,
                               !.wrote = r.wrote,
                               !.file = IF r.wrote THEN r.text ELSE @]
    /\ MaskFrame

SetNodemask ==
    /\ mask.pc = "call" /\ mask.name = "mems"
    /\ \E r \in {cg_env_set_nodemask(mask.req, mask.in)} :
          mask' = [mask EXCEPT !.pc = "done", !.ret = r.ret, !.diag = r.diag,
                               !.wrote = r.wrote,
                               !.file = IF r.wrote THEN r.text ELSE @]
    /\ MaskFrame

NextMask == SetCpumask \/ SetNodemask

SpecMask == InitMask /\ [][NextMask]_vars

\* the reads succeed (the mask of the slice is read, held and parsed) and
\* the write succeeds
MaskIoOk ==
    /\ mask.in.mounted /\ mask.in.flt = "none"
    /\ mask.in.avail # Garbage

\* C10: given that the reads and the write succeed, the mask accessor
\* returns 0 exactly when requested AND available is not empty, and then
\* the text it writes to the container's mask file is that of the
\* intersection (requested {0,1,2}, available {1,2,3}: {1,2}); when the
\* intersection is empty (requested {5}, available {1,2,3}) it returns
\* VZCTL_E_CPUMASK, writes nothing, and its diagnostic holds the available
\* range as it was read.
C10_MaskIntersection ==
    (mask.pc = "done" /\ MaskIoOk) =>
        LET avail == vzctl2_bitmap_parse(mask.in.avail).mask
            both == mask.req \cap avail
        IN  /\ mask.ret = 0 <=> both # {}
            /\ both # {} =>
                  /\ mask.wrote
                  /\ vzctl2_bitmap_parse(mask.file).ret = 0
                  /\ vzctl2_bitmap_parse(mask.file).mask = both
                  /\ mask.file = bitmap_snprintf(both)
            /\ both = {} =>
                  /\ mask.ret = VZCTL_E_CPUMASK
                  /\ ~mask.wrote
                  /\ mask.diag.kind = "range"
                  /\ mask.diag.range = mask.in.avail
                  /\ mask.diag.val = bitmap_snprintf(mask.req)
            /\ (mask.req = {0, 1, 2} /\ avail = {1, 2, 3}) =>
                  (mask.ret = 0 /\ mask.file = <<<<1, 2>>>>)
            /\ (mask.req = {5} /\ avail = {1, 2, 3}) =>
                  (mask.ret = VZCTL_E_CPUMASK /\ mask.diag.range = <<<<1, 3>>>>)

\* requested {0,1,2} against available {1,2,3}: "1-2" was written
C10_Witness ==
    /\ mask.pc = "done" /\ MaskIoOk
    /\ mask.req = {0, 1, 2}
    /\ mask.in.avail = <<<<1, 3>>>>
    /\ mask.ret = 0
    /\ mask.wrote /\ mask.file = <<<<1, 2>>>>

(***************************************************************************)
(* SpecBind: bindmount_env_cgroup.  A mount below the container's root is  *)
(* [kind, at]: the sysfs at /sys, the tmpfs at /sys/fs/cgroup, and the     *)
(* bind mounts, each at the host's mount path of a controller (the host's  *)
(* cgroup mounts lie below /sys/fs/cgroup, so a bind mount lies inside the *)
(* tmpfs, which lies inside the sysfs).                                    *)
(***************************************************************************)
SysfsAt == "/sys"
TmpfsAt == "/sys/fs/cgroup"
Depth(kind) == IF kind = "sysfs" THEN 1 ELSE IF kind = "tmpfs" THEN 2 ELSE 3

\* mount(2): on top of what is mounted
do_mount(ms, kind, at) == Append(ms, [kind |-> kind, at |-> at])

RemoveAt(seq, k) == SubSeq(seq, 1, k - 1) \o SubSeq(seq, k + 1, Len(seq))

\* umount(2) of the path at: the topmost mount at it goes, unless there is
\* none (EINVAL) or a mount inside it (EBUSY)
umount(ms, at) ==
    LET here == {k \in 1..Len(ms) : ms[k].at = at}
    IN  IF here = {} THEN ms
        ELSE LET k == Max(here)
             IN  IF \E j \in 1..Len(ms) : Depth(ms[j].kind) > Depth(ms[k].kind)
                 THEN ms
                 ELSE RemoveAt(ms, k)

\* (variant: no path is found in the list)
find_str_never(head, str) == FALSE

find_str(head, str) == \E k \in 1..Len(head) : head[k] = str

\* create_perctl_symlink: the names between the commas of the last
\* component of the path, none when it has no comma
PerCtlNames(mnt) == IF mnt = "/cg/cpu,cpuset" THEN {"cpu", "cpuset"} ELSE {}

\* st: ret, the cache, head, the mounts, the host's directories, the mount
\* paths remounted slave, the symlinks made, the paths bound, where the
\* call stopped (step, at), and the kind of fault the host had for it (flt)
RECURSIVE UmountAll(_, _, _)
UmountAll(ms, head, k) ==
    IF k > Len(head) THEN ms ELSE UmountAll(umount(ms, head[k]), head, k + 1)

\* an err block that leaves out the loop over head
bind_err_skeleton(st) ==
    IF st.ret = 0 THEN st
    ELSE [st EXCEPT !.mounts = umount(umount(@, TmpfsAt), SysfsAt)]

\* lines 1171-1183: every entry of head, then the tmpfs, then the sysfs
bind_err(st) ==
    IF st.ret = 0 THEN st
    ELSE [st EXCEPT !.mounts = umount(umount(UmountAll(@, st.head, 1), TmpfsAt), SysfsAt)]

\* do_bindmount(s, d, flags) for controller i, and create_perctl_symlink
bind_one(ctid, i, st, flt) ==
    LET mnt == st.mp[i]
        src == get_cgroup_name(ctid, i, mnt)
        stop(code, step, x) == [x EXCEPT !.ret = code, !.step = step, !.at = i,
                                         !.pc = "err"]
    IN  IF flt = "mkdir_dst" THEN stop(VZCTL_E_RESOURCE, "bind", st)
        ELSE IF flt = "mkdir_src" /\ src \notin st.dirs
        THEN stop(VZCTL_E_RESOURCE, "bind", st)
        ELSE LET s1 == [st EXCEPT !.dirs = @ \cup Prefixes(src)]
             IN  IF flt = "mount" THEN stop(VZCTL_E_RESOURCE, "bind", s1)
                 ELSE LET s2 == [s1 EXCEPT !.mounts = do_mount(@, "bind", mnt),
                                           !.bound = Append(@, mnt), !.ret = 0]
                      IN  IF PerCtlNames(mnt) = {} THEN s2
                          ELSE IF flt = "symlink" THEN stop(-1, "symlink", s2)
                          ELSE [s2 EXCEPT !.links = @ \cup PerCtlNames(mnt)]

\* the loop of lines 1131-1169 from controller i on; ub is what the
\* find_str of line 1140 does when it is handed a null mount_path and head
\* is not empty: "crash" or "miss"
RECURSIVE bind_loop(_, _, _, _, _, _, _)
bind_loop(ctid, i, st, table, live, flt, ub) ==
    IF i > NCtl THEN st
    ELSE LET f == IF flt.at = i THEN flt.kind ELSE "none"
             g == cg_get_ctl(i, st.mp, table, f)
             s0 == [st EXCEPT !.mp = g.mount_path, !.ret = g.ret]
             mnt == s0.mp[i]
             stop(code, step, x) == [x EXCEPT !.ret = code, !.step = step, !.at = i,
                                              !.pc = "err"]
         IN  IF g.ret = -1 THEN stop(-1, "ctl", s0)
             ELSE IF cg_ctl_map[i].is_prvt # 0
             THEN bind_loop(ctid, i + 1, s0, table, live, flt, ub)
             ELSE IF ~cg_is_systemd(cg_ctl_map[i].subsys)
                      /\ cg_ctl_map[i].subsys \notin live
             THEN bind_loop(ctid, i + 1, s0, table, live, flt, ub)
             ELSE IF mnt = NULL /\ s0.head # << >> /\ ub = "crash"
             THEN [s0 EXCEPT !.pc = "crashed", !.step = "find_str", !.at = i]
             ELSE IF mnt # NULL /\ find_str(s0.head, mnt)
             THEN bind_loop(ctid, i + 1, s0, table, live, flt, ub)
             \* mount(NULL, NULL, NULL, MS_SLAVE, NULL) fails
             ELSE IF mnt = NULL \/ f = "slave" THEN stop(VZCTL_E_SYSTEM, "slave", s0)
             ELSE LET s1 == [s0 EXCEPT !.slaved = @ \cup {mnt}]
                  IN  IF f = "addstr" THEN stop(VZCTL_E_NOMEM, "addstr", s1)
                      ELSE LET s2 == bind_one(ctid, i, [s1 EXCEPT !.head = Append(@, mnt)], f)
                           IN  IF s2.pc = "err" THEN s2
                               ELSE bind_loop(ctid, i + 1, s2, table, live, flt, ub)

BindStart(mp, ds) ==
    [pc |-> "run", ret |-> 0, step |-> "none", at |-> 0, mp |-> mp, head |-> << >>,
     mounts |-> << >>, dirs |-> ds, slaved |-> {}, links |-> {}, bound |-> << >>,
     flt |-> "none"]

\* lines 1111-1129: a failure here returns at once
cg_bindmount_cgroup(ctid, mp, ds, table, live, flt, ub) ==
    LET st == BindStart(mp, ds)
        f == IF flt.at = 0 THEN flt.kind ELSE "none"
        back(code, step, x) == [x EXCEPT !.ret = code, !.step = step, !.pc = "done"]
        s1 == [st EXCEPT !.mounts = do_mount(@, "sysfs", SysfsAt)]
        s2 == [s1 EXCEPT !.mounts = do_mount(@, "tmpfs", TmpfsAt)]
    IN  IF f = "mkdir_sys" THEN back(VZCTL_E_CREATE_DIR, f, st)
        ELSE IF f = "mount_sysfs" THEN back(VZCTL_E_RESOURCE, f, st)
        ELSE IF f = "mkdir_cgroup" THEN back(VZCTL_E_RESOURCE, f, s1)
        ELSE IF f = "mount_tmpfs" THEN back(VZCTL_E_RESOURCE, f, s1)
        ELSE IF f = "cgroups_fopen" THEN back(VZCTL_E_SYSTEM, f, s2)
        ELSE IF f = "cgroups_nomem" THEN back(VZCTL_E_NOMEM, f, s2)
        ELSE LET s3 == bind_loop(ctid, 1, s2, table, live, flt, ub)
             IN  IF s3.pc = "crashed" THEN s3
                 ELSE [bind_err(s3) EXCEPT !.pc = "done"]

\* the result is handed on; the list goes
bindmount_env_cgroup(ctid, mp, ds, table, live, flt, ub) ==
    [cg_bindmount_cgroup(ctid, mp, ds, table, live, flt, ub)
        EXCEPT !.head = << >>, !.flt = flt.kind]

NoBind == BindStart([i \in Ctls |-> NULL], {})

LiveNames == {"cpu", "cpuset", "memory"}

BindFaults ==
    {NoFault}
    \cup [at : {0}, kind : {"mkdir_sys", "mount_sysfs", "mkdir_cgroup", "mount_tmpfs",
                            "cgroups_fopen", "cgroups_nomem"}, depth : {0}]
    \cup [at : Unresolved, kind : {"fopen", "nomem"}, depth : {0}]
    \cup [at : Ctls, kind : {"slave", "addstr", "mkdir_dst", "mkdir_src", "mount",
                             "symlink"}, depth : {0}]

InitBind ==
    /\ proc_mounts \in MountTables({4, 6}, {2, 3, 5}) \cup MountTables({4}, {2, 3, 5})
    /\ mount_path = [i \in Ctls |-> NULL]
    /\ cgroups \in SUBSET LiveNames
    /\ bindm = << >>
    /\ bres = NoBind
    /\ IdleLife /\ IdleCtl /\ IdleRm /\ IdleRetry /\ IdleMask /\ IdleParam

BindFrame == UNCHANGED <<busy, call, since_new, ctlVars, rmVars, retryVars, maskVars, paramVars>>

BindMount ==
    /\ bres = NoBind /\ bindm = << >>
    /\ \E ctid \in CTIDs : \E flt \in BindFaults : \E ub \in {"crash", "miss"} :
       \E r \in {bindmount_env_cgroup(ctid, mount_path, dirs, proc_mounts, cgroups,
                                      flt, ub)} :
          /\ bres' = [r EXCEPT !.dirs = {}]
          /\ bindm' = r.mounts
          /\ mount_path' = r.mp
          /\ dirs' = r.dirs
    /\ UNCHANGED <<proc_mounts, cgroups>>
    /\ BindFrame

\* the caller has taken the result (after a crash: another process starts,
\* with nothing resolved)
BindReturn ==
    /\ bres # NoBind
    /\ bres' = NoBind
    /\ mount_path' = IF bres.pc = "crashed" THEN [i \in Ctls |-> NULL] ELSE mount_path
    /\ UNCHANGED <<proc_mounts, dirs, cgroups, bindm>>
    /\ BindFrame

\* the container stops: what is mounted below its root goes
EnvUmount ==
    /\ bres = NoBind /\ bindm # << >>
    /\ bindm' = << >>
    /\ UNCHANGED <<proc_mounts, mount_path, dirs, cgroups, bres>>
    /\ BindFrame

NextBind == BindMount \/ BindReturn \/ EnvUmount

SpecBind == InitBind /\ [][NextBind]_vars

LoopSteps == {"ctl", "slave", "addstr", "bind", "symlink"}

\* C8: when the setup fails at a controller of the loop (the remount as
\* slave, the bind mount or the symlink fails, whichever controller it is)
\* and bindmount_env_cgroup returns non-zero, no mount made by the call is
\* left below the container's root: every path bound so far, the tmpfs and
\* the sysfs have been unmounted.
C8_LoopFailureUnmountsAll ==
    (bres.pc = "done" /\ bres.step \in LoopSteps) =>
        /\ bres.ret # 0
        /\ bres.at \in Ctls
        /\ bres.mounts = << >>
        /\ bindm = << >>

\* the bind mount of the third path failed, with two paths bound before
C8_Witness ==
    /\ bres.pc = "done" /\ bres.ret # 0
    /\ bres.step = "bind"
    /\ Len(bres.bound) = 2
    /\ bres.links # {}
    /\ bindm = << >>

\* C9 as stated: when the setup fails before the loop (mounting the tmpfs
\* with the sysfs mounted, or reading the live controllers with both
\* mounted), everything the call has mounted below the container's root is
\* unmounted before it returns the error.
C9_EarlyFailureUnmountsAll ==
    (bres.pc = "done" /\ bres.ret # 0
        /\ bres.step \in {"mount_tmpfs", "cgroups_fopen", "cgroups_nomem"}) =>
        bindm = << >>

\* the controllers the loop does not pass over: not private, and in the
\* list of /proc/cgroups or systemd
Attempted ==
    {i \in Ctls : /\ cg_ctl_map[i].is_prvt = 0
                  /\ \/ cg_is_systemd(cg_ctl_map[i].subsys)
                     \/ cg_ctl_map[i].subsys \in cgroups}
\* the host's mount path of controller i, NULL when the table has none
MountOf(i) ==
    LET r == scan(i, proc_mounts, TRUE) IN IF r.ret = 0 THEN r.out ELSE NULL
BindPaths(ms) == {ms[k].at : k \in {j \in 1..Len(ms) : ms[j].kind = "bind"}}

\* C17 as stated: a setup in which no step fails returns 0 and rolls
\* nothing back, also when a controller it does not pass over (active and
\* not private, or systemd) has no mount; such a controller is skipped and
\* nothing is mounted for it.
C17_UnresolvedTreatedAbsent ==
    (bres # NoBind /\ bres.flt = "none") =>
        /\ bres.pc = "done" /\ bres.ret = 0
        /\ bres.slaved = {MountOf(i) : i \in Attempted} \ {NULL}
        /\ BindPaths(bindm) = bres.slaved

\* what holds instead: with no other failure, a controller the loop does
\* not pass over and that has no mount ends the call, by a crash in
\* find_str or by VZCTL_E_SYSTEM from the remount and the rollback of
\* everything mounted; the call returns 0 exactly when there is none.
C17_UnresolvedFailsSetup ==
    (bres # NoBind /\ bres.flt = "none") =>
        IF \E i \in Attempted : MountOf(i) = NULL
        THEN LET i == CHOOSE j \in Attempted :
                          MountOf(j) = NULL /\ \A l \in Attempted : MountOf(l) = NULL => j <= l
             IN  /\ bres.at = i
                 /\ \/ bres.pc = "crashed" /\ bres.step = "find_str"
                    \/ /\ bres.pc = "done" /\ bres.step = "slave"
                       /\ bres.ret = VZCTL_E_SYSTEM /\ bindm = << >>
        ELSE bres.pc = "done" /\ bres.ret = 0

\* no step failed, two paths were bound, then the setup came to systemd,
\* which has no mount on this host: VZCTL_E_SYSTEM, everything unmounted
C17_FailsAtSystemd ==
    /\ bres # NoBind /\ bres.flt = "none"
    /\ bres.pc = "done" /\ bres.ret = VZCTL_E_SYSTEM
    /\ bres.step = "slave" /\ bres.at = NCtl
    /\ Len(bres.bound) = 2 /\ bindm = << >>

\* C18: in a setup that returned 0 the host mount paths remounted slave,
\* and the paths bind-mounted below the container's root, are exactly the
\* mount paths of the controllers that are not private and are in the list
\* of live controllers or systemd; each path is bound once, also when two
\* controllers share it; the mount path of a private controller is not
\* among them.
C18_BoundExactlyLivePaths ==
    (bres # NoBind /\ bres.pc = "done" /\ bres.ret = 0) =>
        LET paths == {MountOf(i) : i \in Attempted}
        IN  /\ NULL \notin paths
            /\ bres.slaved = paths
            /\ {bres.bound[k] : k \in 1..Len(bres.bound)} = paths
            /\ Len(bres.bound) = Cardinality(paths)
            /\ BindPaths(bindm) = paths
            /\ Cardinality({k \in 1..Len(bindm) : bindm[k].kind = "bind"})
                   = Cardinality(paths)
            /\ \A i \in Ctls : cg_ctl_map[i].is_prvt # 0 => MountOf(i) \notin paths

\* a setup that returned 0 on a host where cpu and cpuset, both live, share
\* a mount, systemd has its own, and ve (private) is mounted too
C18_Witness ==
    /\ bres # NoBind /\ bres.pc = "done" /\ bres.ret = 0
    /\ cgroups = {"cpu", "cpuset"}
    /\ Len(bres.bound) = 2
    /\ MountOf(1) = MountOf(2)
    /\ \E i \in Ctls : cg_ctl_map[i].is_prvt # 0 /\ MountOf(i) # NULL
    /\ BindPaths(bindm) = {MountOf(1), MountOf(NCtl)}
    /\ bres.links = {"cpu", "cpuset"}

(***************************************************************************)
(* SpecFreeze: cg_freezer_cmd / cg_set_freezer_state, one step per system  *)
(* call that reads or writes freezer.state.  A text is the sequence of its *)
(* characters.  frz.file is the state the kernel reports for the           *)
(* container's freezer cgroup; the file reads as that state and a newline. *)
(***************************************************************************)
THAWED == <<"T", "H", "A", "W", "E", "D">>
FREEZING == <<"F", "R", "E", "E", "Z", "I", "N", "G">>
FROZEN == <<"F", "R", "O", "Z", "E", "N">>
NewLine == "\n"
NUL == ""

strlen(str) == Len(str)
CharAt(str, k) == IF k <= Len(str) THEN str[k] ELSE NUL
\* strncmp(a, b, n) == 0
strncmp_eq(a, b, n) ==
    \A k \in 1..n :
        /\ CharAt(a, k) = CharAt(b, k)
        /\ \A j \in 1..(k - 1) : CharAt(a, j) # NUL

\* cg_read of a file that is not empty: the text without its last newline
cg_read(text) ==
    LET r == Len(text)
    IN  IF text[r] = NewLine THEN SubSeq(text, 1, r - 1) ELSE text

\* what the kernel makes of a write to freezer.state: THAWED at once;
\* FROZEN at once or by way of FREEZING
freezer_write(file, data) ==
    IF data = THAWED THEN {THAWED}
    ELSE IF file = FROZEN THEN {FROZEN}
    ELSE {FREEZING, FROZEN}

\* write_data: 1 when the file does not exist, -1 on any other failure
write_data(flt) ==
    IF flt = "enoent" THEN 1
    ELSE IF flt \in {"eopen", "ewrite", "eclose"} THEN -1
    ELSE 0

Sat(n) == Min({n + 1, MaxPolls})

\* one pass of the loop of cg_set_freezer_state for the call f: cg_get_param
\* gives ret and buf, len is strlen(state)
cg_set_freezer_state_iter_len1(f, ret, buf) ==
    IF ret # 0 THEN [f EXCEPT !.pc = "done", !.ret = ret, !.failed = TRUE]
    ELSE LET g == [f EXCEPT !.reads = Sat(@), !.last = buf,
                            !.matched = IF strncmp_eq(buf, f.target, strlen(f.target))
                                        THEN Sat(@) ELSE @]
         IN  IF strncmp_eq(buf, f.target, 1)
             THEN [g EXCEPT !.pc = "done", !.ret = 0]
             ELSE [g EXCEPT !.pc = "sleep"]

cg_set_freezer_state_iter_timeout(f, ret, buf) ==
    IF ret # 0 THEN [f EXCEPT !.pc = "done", !.ret = ret, !.failed = TRUE]
    ELSE LET g == [f EXCEPT !.reads = Sat(@), !.last = buf,
                            !.matched = IF strncmp_eq(buf, f.target, strlen(f.target))
                                        THEN Sat(@) ELSE @]
         IN  IF strncmp_eq(buf, f.target, strlen(f.target))
             THEN [g EXCEPT !.pc = "done", !.ret = 0]
             ELSE IF f.sleeps = MaxPolls THEN [g EXCEPT !.pc = "done", !.ret = -1]
             ELSE [g EXCEPT !.pc = "sleep"]

cg_set_freezer_state_iter(f, ret, buf) ==
    IF ret # 0 THEN [f EXCEPT !.pc = "done", !.ret = ret, !.failed = TRUE]
    ELSE LET g == [f EXCEPT !.reads = Sat(@), !.last = buf,
                            !.matched = IF strncmp_eq(buf, f.target, strlen(f.target))
                                        THEN Sat(@) ELSE @]
         IN  IF strncmp_eq(buf, f.target, strlen(f.target))
             THEN [g EXCEPT !.pc = "done", !.ret = 0]
             ELSE [g EXCEPT !.pc = "sleep"]

CG_FREEZER == find_cg_ctl("freezer")

\* frz: pc; cmd; target, the state asked for; ret; file; was, the file when
\* the call began; wrote, what the call wrote; reads, sleeps, the reads
\* that succeeded and the sleeps of the call (counted up to MaxPolls);
\* last, the text of the last read; matched, the reads that had the target
\* as a prefix; failed, a step of the call returned non-zero; calls, the
\* calls made
NoFrz(file) ==
    [pc |-> "idle", cmd |-> "none", target |-> << >>, ret |-> 0, file |-> file,
     was |-> file, wrote |-> << >>, reads |-> 0, sleeps |-> 0, last |-> << >>,
     matched |-> 0, failed |-> FALSE, calls |-> 0]

InitFreeze ==
    /\ proc_mounts \in MountTables({4}, {3, 7})
    /\ mount_path = [i \in Ctls |-> NULL]
    /\ frz \in {NoFrz(THAWED), NoFrz(FROZEN)}
    /\ IdleLife /\ IdleCtl /\ IdleRm /\ IdleRetry /\ IdleBind /\ IdleMask /\ IdleRate
    /\ IdleUnits /\ IdleSlice

FrzFrame == UNCHANGED <<proc_mounts, lifeVars, ctlVars, rmVars, retryVars, bindVars,
                        maskVars, rate, units, slc>>

\* cg_freezer_cmd
FrzCall ==
    /\ frz.pc = "idle" /\ frz.calls < MaxFrzCalls
    /\ \E cmd \in {"VZCTL_CMD_RESUME", "VZCTL_CMD_SUSPEND", "other"} :
          frz' = [NoFrz(frz.file) EXCEPT
                    !.calls = frz.calls + 1,
                    !.cmd = cmd,
                    !.pc = IF cmd = "other" THEN "done" ELSE "set",
                    !.ret = IF cmd = "other" THEN -1 ELSE 0,
                    !.failed = cmd = "other",
                    !.target = IF cmd = "VZCTL_CMD_RESUME" THEN THAWED
                               ELSE IF cmd = "VZCTL_CMD_SUSPEND" THEN FROZEN
                               ELSE << >>]
    /\ UNCHANGED mount_path
    /\ FrzFrame

\* lines 1224-1226: cg_set_param
FrzSet ==
    /\ frz.pc = "set"
    /\ \E flt \in {"none", "fopen", "nomem", "enoent", "eopen", "ewrite", "eclose"} :
       \E g \in {cg_get_ctl(CG_FREEZER, mount_path, proc_mounts, flt)} :
          /\ mount_path' = g.mount_path
          /\ IF g.ret # 0
             THEN frz' = [frz EXCEPT !.pc = "done", !.ret = g.ret, !.failed = TRUE]
             ELSE \E w \in {write_data(flt)} :
                  \E file \in (IF flt \in {"enoent", "eopen", "ewrite"}
                               THEN {frz.file}
                               ELSE freezer_write(frz.file, frz.target)) :
                    frz' = [frz EXCEPT
                              !.file = file,
                              !.wrote = IF flt \in {"enoent", "eopen", "ewrite"}
                                        THEN @ ELSE Append(@, frz.target),
                              !.ret = w,
                              !.failed = w # 0,
                              !.pc = IF w # 0 THEN "done" ELSE "poll"]
    /\ FrzFrame

\* lines 1230-1236: cg_get_param and the comparison
FrzPoll ==
    /\ frz.pc = "poll"
    /\ \E flt \in {"none", "eopen", "eread"} :
       \E g \in {cg_get_ctl(CG_FREEZER, mount_path, proc_mounts, "none")} :
          /\ mount_path' = g.mount_path
          /\ frz' = IF g.ret # 0 THEN cg_set_freezer_state_iter(frz, g.ret, << >>)
                    ELSE IF flt # "none" THEN cg_set_freezer_state_iter(frz, 0 - EIO, << >>)
                    ELSE cg_set_freezer_state_iter(frz, 0,
                                                   cg_read(Append(frz.file, NewLine)))
    /\ FrzFrame

\* line 1238: sleep(1)
FrzSleep ==
    /\ frz.pc = "sleep"
    /\ frz' = [frz EXCEPT !.pc = "poll", !.sleeps = Sat(@)]
    /\ UNCHANGED mount_path
    /\ FrzFrame

\* the caller has the result
FrzReturn ==
    /\ frz.pc = "done"
    /\ frz' = [NoFrz(frz.file) EXCEPT !.calls = frz.calls]
    /\ UNCHANGED mount_path
    /\ FrzFrame

\* the last task of the container has stopped
KernelSettle ==
    /\ frz.file = FREEZING
    /\ frz' = [frz EXCEPT !.file = FROZEN]
    /\ UNCHANGED mount_path
    /\ FrzFrame

NextFreeze == FrzCall \/ FrzSet \/ FrzPoll \/ FrzSleep \/ FrzReturn \/ KernelSettle

SpecFreeze == InitFreeze /\ [][NextFreeze]_vars

\* the process runs: a call that can take its next step takes it
SpecFreezeLive ==
    SpecFreeze /\ WF_vars(FrzSet) /\ WF_vars(FrzPoll) /\ WF_vars(FrzSleep)

Polling == frz.pc \in {"poll", "sleep"}

\* C11: a freezer transition writes the target state before it polls, and
\* returns success at the first poll whose text has the target as a prefix,
\* never earlier; when the cgroup is in the target state already (FROZEN
\* asked for while FROZEN) and no step fails, it returns success on the
\* first poll without having slept.
C11_FreezeProtocol ==
    /\ (Polling \/ frz.reads > 0) => frz.wrote = <<frz.target>>
    /\ Polling => (frz.matched = 0 /\ ~frz.failed)
    /\ (frz.pc = "done" /\ frz.ret = 0) =>
          /\ frz.reads >= 1 /\ frz.matched = 1
          /\ strncmp_eq(frz.last, frz.target, Len(frz.target))
    /\ (frz.pc = "done" /\ frz.cmd # "other" /\ frz.was = frz.target /\ ~frz.failed) =>
          (frz.ret = 0 /\ frz.reads = 1 /\ frz.sleeps = 0)

\* FROZEN asked for while FROZEN: success on the first poll
C11_Witness ==
    /\ frz.pc = "done" /\ frz.ret = 0
    /\ frz.was = FROZEN /\ frz.target = FROZEN
    /\ frz.reads = 1 /\ frz.sleeps = 0
    /\ frz.wrote = <<FROZEN>>

\* the loop is left only by a read that failed or a text that has the
\* target as a prefix, and a sleep is followed by another poll
NoTimeout ==
    /\ (Polling /\ frz'.pc = "done") =>
          (frz'.failed \/ (frz'.ret = 0 /\ frz'.matched = 1))
    /\ (frz.pc = "poll" /\ frz'.pc = "sleep") =>
          ~strncmp_eq(frz'.last, frz.target, Len(frz.target))
    /\ (frz.pc = "sleep" /\ frz'.pc # "sleep") => frz'.pc = "poll"

\* C12: the transition has no timeout of its own: as long as every read
\* succeeds and its text does not have the target as a prefix the call
\* goes on polling; and a call does not poll for ever a cgroup that stays
\* in the target state: it returns.
C12_NoTimeout ==
    /\ [][NoTimeout]_vars
    /\ []<>~(Polling /\ frz.file = frz.target)

\* a call still polling after MaxPolls sleeps, the cgroup still FREEZING
C12_Witness ==
    /\ frz.pc = "poll" /\ frz.sleeps = MaxPolls /\ frz.reads = MaxPolls
    /\ frz.target = FROZEN /\ frz.file = FREEZING
    /\ frz.matched = 0

(***************************************************************************)
(* SpecRate: cg_env_set_cpulimit / cg_env_get_cpulimit.  limit is a float: *)
(* limit * 1024 / 100 is computed in the precision the build evaluates     *)
(* float expressions in (single precision, or the extended precision of    *)
(* the x87 unit) and then converted to unsigned long.  cpu.rate holds the  *)
(* decimal text of the number written.                                     *)
(***************************************************************************)
Pow2(k) == 2 ^ k
\* the largest k with d * 2^k <= n (n >= d)
Log2Floor(n, d) == Max({k \in 0..24 : d * Pow2(k) <= n})

\* a / b rounded to the nearest integer, ties to even
RoundHalfEven(a, b) ==
    LET q == a \div b
        r == a % b
    IN  IF 2 * r > b \/ (2 * r = b /\ q % 2 = 1) THEN q + 1 ELSE q

MantBits == 24

\* (unsigned long)((float)n / 100) for a float n that holds an integer:
\* the quotient rounded to a mantissa of MantBits bits, then truncated
float_div100_trunc(n) ==
    IF n < 100 THEN 0
    ELSE LET k == Log2Floor(n, 100)
         IN  IF k >= MantBits - 1
             THEN RoundHalfEven(n, 100 * Pow2(k - (MantBits - 1))) * Pow2(k - (MantBits - 1))
             ELSE RoundHalfEven(n * Pow2(MantBits - 1 - k), 100) \div Pow2(MantBits - 1 - k)

\* the same in extended precision: the quotient is off by less than its
\* distance to the next integer, the truncation is that of the exact value
extended_div100_trunc(n) == n \div 100

\* (float)n for an integer n
to_float(n) ==
    IF n < Pow2(MantBits) THEN n
    ELSE LET k == Log2Floor(n, 1)
         IN  RoundHalfEven(n, Pow2(k - (MantBits - 1))) * Pow2(k - (MantBits - 1))

DigitChars == <<"0", "1", "2", "3", "4", "5", "6", "7", "8", "9">>

\* snprintf(data, sizeof(data), "%lu", value)
RECURSIVE snprintf_lu(_)
snprintf_lu(value) ==
    IF value < 10 THEN <<DigitChars[value + 1]>>
    ELSE Append(snprintf_lu(value \div 10), DigitChars[(value % 10) + 1])

DigitOf(c) == IF \E d \in 1..10 : DigitChars[d] = c
              THEN (CHOOSE d \in 1..10 : DigitChars[d] = c) - 1
              ELSE 0 - 1

\* parse_ul: the number a decimal text stands for; fails on any other text
RECURSIVE parse_ul(_)
parse_ul(data) ==
    IF data = << >> THEN [ret |-> 1, value |-> 0]
    ELSE IF \E k \in 1..Len(data) : DigitOf(data[k]) < 0 THEN [ret |-> 1, value |-> 0]
    ELSE IF Len(data) = 1 THEN [ret |-> 0, value |-> DigitOf(data[1])]
    ELSE [ret |-> 0,
          value |-> 10 * parse_ul(SubSeq(data, 1, Len(data) - 1)).value
                    + DigitOf(data[Len(data)])]

CG_CPU == find_cg_ctl("cpu")

\* unsigned long limit1024 = limit * 1024 / 100, for a whole limit
limit1024_of(limit, build) ==
    IF build = "extended" THEN extended_div100_trunc(limit * 1024)
    ELSE float_div100_trunc(limit * 1024)

\* the whole percentages asked for: the small ones, and those from BigPct on
Pcts == (0..MaxPct) \cup (BigPct..(BigPct + 25))

\* rate: file, the text cpu.rate holds (none before the first write); set,
\* the limit of the last cg_env_set_cpulimit that returned 0 (-1: none);
\* op, arg, ret of the call that has just returned; build, the precision
\* it computed in; stored, the number it wrote or parsed; got, the limit
\* it gave back
NoRate == [file |-> << >>, set |-> 0 - 1, op |-> "none", arg |-> 0, build |-> "none",
           ret |-> 0, stored |-> 0 - 1, got |-> 0 - 1]

InitRate ==
    /\ proc_mounts \in MountTables({4}, {1, 3})
    /\ mount_path = [i \in Ctls |-> NULL]
    /\ rate = NoRate
    /\ IdleLife /\ IdleCtl /\ IdleRm /\ IdleRetry /\ IdleBind /\ IdleMask /\ IdleFreeze
    /\ IdleUnits /\ IdleSlice

RateFrame == UNCHANGED <<proc_mounts, lifeVars, ctlVars, rmVars, retryVars, bindVars,
                         maskVars, frz, units, slc>>

\* what can go wrong in a call, and the precision of the build
RateRuns == [flt : {"none"}, build : {"float", "extended"}]
            \cup [flt : {"fopen", "nomem", "enoent", "eopen", "ewrite"}, build : {"float"}]

\* cg_env_set_cpulimit(ctid, limit)
SetCpulimit ==
    /\ rate.op = "none"
    /\ \E limit \in Pcts : \E run \in RateRuns :
       \E g \in {cg_get_ctl(CG_CPU, mount_path, proc_mounts, run.flt)} :
       \E limit1024 \in {limit1024_of(limit, run.build)} :
       \E w \in {IF g.ret # 0 THEN g.ret ELSE write_data(run.flt)} :
          /\ mount_path' = g.mount_path
          /\ rate' = [rate EXCEPT !.op = "set", !.arg = limit, !.build = run.build,
                                  !.ret = w,
                                  !.file = IF w = 0 THEN snprintf_lu(limit1024) ELSE @,
                                  !.stored = IF w = 0 THEN limit1024 ELSE @,
                                  !.set = IF w = 0 THEN limit ELSE @]
    /\ RateFrame

\* cg_env_get_cpulimit(ctid, &limit)
GetCpulimit ==
    /\ rate.op = "none"
    /\ \E flt \in {"none", "fopen", "nomem", "eopen", "eread"} :
       \E g \in {cg_get_ctl(CG_CPU, mount_path, proc_mounts, flt)} :
          /\ mount_path' = g.mount_path
          /\ rate' = IF g.ret # 0 THEN [rate EXCEPT !.op = "get", !.ret = g.ret]
                     ELSE IF flt \in {"eopen", "eread"} \/ rate.file = << >>
                     THEN [rate EXCEPT !.op = "get", !.ret = 0 - EIO]
                     ELSE LET v == parse_ul(cg_read(Append(rate.file, NewLine)))
                          IN  [rate EXCEPT !.op = "get", !.ret = v.ret,
                                           !.stored = v.value,
                                           !.got = to_float((v.value * 100) \div 1024)]
    /\ RateFrame

\* the caller has the result
RateReturn ==
    /\ rate.op # "none"
    /\ rate' = [NoRate EXCEPT !.file = rate.file, !.set = rate.set]
    /\ UNCHANGED mount_path
    /\ RateFrame

NextRate == SetCpulimit \/ GetCpulimit \/ RateReturn

SpecRate == InitRate /\ [][NextRate]_vars

\* C13 as stated: setting a whole percentage p stores floor(p * 1024 / 100)
\* in cpu.rate, a get on a stored value s gives floor(s * 100 / 1024), and
\* 50 is stored as 512 and read back as 50.
C13_CpulimitTruncates ==
    /\ (rate.op = "set" /\ rate.ret = 0) =>
          /\ rate.stored = (rate.arg * 1024) \div 100
          /\ rate.file = snprintf_lu((rate.arg * 1024) \div 100)
    /\ (rate.op = "get" /\ rate.ret = 0) =>
          /\ rate.got = (parse_ul(rate.file).value * 100) \div 1024
          /\ rate.set = 50 => (rate.stored = 512 /\ rate.got = 50)

\* the same for the percentages below BigPct
C13_CpulimitTruncatesSmall ==
    /\ (rate.op = "set" /\ rate.ret = 0 /\ rate.arg < BigPct) =>
          /\ rate.stored = (rate.arg * 1024) \div 100
          /\ rate.file = snprintf_lu((rate.arg * 1024) \div 100)
    /\ (rate.op = "get" /\ rate.ret = 0) =>
          /\ rate.got = (parse_ul(rate.file).value * 100) \div 1024
          /\ rate.set = 50 => (rate.stored = 512 /\ rate.got = 50)

C13_RoundTrip50 ==
    rate.op = "get" /\ rate.ret = 0 /\ rate.set = 50 /\ rate.stored = 512 /\ rate.got = 50

(***************************************************************************)
(* The sleeps of rmdir_retry (SpecRetry).                                  *)
(***************************************************************************)
\* min(10 ms * 2^(k-1), 500 ms), in microseconds; from the 7th on the
\* product is above 500 ms (it is not computed where it would leave the
\* integers of TLC)
KthSleep(k) ==
    IF k > 17 THEN maxwait
    ELSE IF wait0 * Pow2(k - 1) < maxwait THEN wait0 * Pow2(k - 1) ELSE maxwait

RECURSIVE SleptIn(_)
SleptIn(k) == IF k = 0 THEN 0 ELSE SleptIn(k - 1) + KthSleep(k)

\* C19: the k-th sleep of rmdir_retry lasts min(10 ms * 2^(k-1), 500 ms):
\* 10, 20, 40, ... ms, doubled after each EBUSY, never more than 500 ms;
\* the next one follows the same rule; and a call that gives up on a
\* directory that stays busy has slept at least 30 s and less than 30.5 s
\* in all.
C19_SleepSchedule ==
    LET c == retry.cur.r
    IN  /\ c.sleeps >= 1 => (c.lastsleep = KthSleep(c.sleeps) /\ c.lastsleep <= maxwait)
        /\ c.wait = KthSleep(c.sleeps + 1)
        /\ c.total = SleptIn(c.sleeps)
        /\ (c.pc = "done" /\ retry.cur.last = "EBUSY") =>
              (c.ret = -1 /\ c.total >= timeout /\ c.total < timeout + maxwait)

\* a call that gave up after 65 sleeps, the last ones of 500 ms, 30.13 s in
\* all
C19_Witness ==
    /\ retry.cur.r.pc = "done" /\ retry.cur.last = "EBUSY"
    /\ retry.cur.r.ret = -1
    /\ retry.cur.r.sleeps = 65
    /\ retry.cur.r.lastsleep = maxwait
    /\ retry.cur.r.total = 30130000

(***************************************************************************)
(* The removal of the root (SpecRm).                                       *)
(***************************************************************************)
\* the directories below the root that are still there
BelowRoot(w) == w.dirs \ {w.path}

\* C20: rm_tree removes its root with one rmdir, made after the walk has
\* ended and not before, and not repeated: a root that answers EBUSY three
\* times stays, while a directory below it that does so is removed by
\* rmdir_retry; the failure of that rmdir does not change the result: a
\* walk that met no error and removed everything below the root returns 0
\* whether the root went or not, and rm_tree returns non-zero only when an
\* open, a scan or a stat failed or a directory below the root could not be
\* removed.
C20_RootBestEffort ==
    LET w == walk.w
    IN  /\ w.pc # "done" => (w.rootrm = 0 /\ ~w.rootfailed)
        /\ w.pc = "done" =>
              /\ w.rootrm = IF RmRoot \in DOMAIN walk.visits /\ walk.visits[RmRoot] > 0
                            THEN 1 ELSE 0
              /\ w.rootfailed <=> (w.rootrm = 1 /\ w.path \in w.dirs)
              /\ (w.rootrm = 1 /\ BelowRoot(w) = {} /\ EbusyOf(walk.eb, w.path) # 0) =>
                    w.rootfailed
              /\ (~walk.faulted /\ \A d \in DOMAIN walk.eb : walk.eb[d] # Forever) =>
                    BelowRoot(w) = {}
              /\ (~walk.faulted /\ BelowRoot(w) = {}) => w.ret = 0
              /\ w.ret # 0 => (walk.faulted \/ BelowRoot(w) # {})
              /\ w.ret \in {0, -1}

\* a walk over a tree two levels deep met no error and removed everything
\* below the root; the root answered EBUSY to its one rmdir and stays; the
\* result is 0
C20_Witness ==
    /\ walk.w.pc = "done" /\ walk.w.ret = 0
    /\ ~walk.faulted
    /\ walk.w.rootrm = 1 /\ walk.w.rootfailed
    /\ EbusyOf(walk.eb, RmRoot) = 3
    /\ walk.w.dirs = {RmRoot}
    /\ Cardinality(walk.tree0) >= 3

(***************************************************************************)
(* SpecUnits: cg_env_set_cpuunits.  cpuunits is an unsigned int and so is  *)
(* cpuunits * 1024 / 1000: the product is taken modulo 2^32.  A 32-bit     *)
(* value is kept as its two 16-bit halves <<hi, lo>>.                      *)
(***************************************************************************)
\* (unsigned int) c * k, for k below 2^15
umul32(c, k) ==
    LET hi == c \div Pow2(16)
        lo == c % Pow2(16)
        p == lo * k
    IN  <<(hi * k + p \div Pow2(16)) % Pow2(16), p % Pow2(16)>>

\* (unsigned int) v / k, for k below 2^15 that leaves a quotient below 2^31
udiv32(v, k) ==
    (v[1] \div k) * Pow2(16) + (((v[1] % k) * Pow2(16) + v[2]) \div k)

\* (variant: the product is not cut to 32 bits; for c below 2^24)
cpu_shares_of_wide(cpuunits) == (cpuunits * 128) \div 125

\* cpuunits * 1024 / 1000
cpu_shares_of(cpuunits) == udiv32(umul32(cpuunits, 1024), 1000)

\* the cpuunits asked for: the small ones, and those from BigUnits on
Units == (0..MaxUnits) \cup {1000, 500000} \cup (BigUnits..(BigUnits + MaxUnits))

\* units: file, the text cpu.shares holds (none before the first write);
\* op, arg, ret of the call that has just returned; stored, the number it
\* wrote
NoUnits == [file |-> << >>, op |-> "none", arg |-> 0, ret |-> 0, stored |-> 0 - 1]

InitUnits ==
    /\ proc_mounts \in MountTables({4}, {1, 3})
    /\ mount_path = [i \in Ctls |-> NULL]
    /\ units = NoUnits
    /\ IdleLife /\ IdleCtl /\ IdleRm /\ IdleRetry /\ IdleBind /\ IdleMask
    /\ IdleFreeze /\ IdleRate /\ IdleSlice

UnitsFrame == UNCHANGED <<proc_mounts, lifeVars, ctlVars, rmVars, retryVars, bindVars,
                          maskVars, frz, rate, slc>>

\* cg_env_set_cpuunits(ctid, cpuunits)
SetCpuunits ==
    /\ units.op = "none"
    /\ \E cpuunits \in Units :
       \E flt \in {"none", "fopen", "nomem", "enoent", "eopen", "ewrite"} :
       \E g \in {cg_get_ctl(CG_CPU, mount_path, proc_mounts, flt)} :
       \E shares \in {cpu_shares_of(cpuunits)} :
       \E w \in {IF g.ret # 0 THEN g.ret ELSE write_data(flt)} :
          /\ mount_path' = g.mount_path
          /\ units' = [units EXCEPT !.op = "set", !.arg = cpuunits, !.ret = w,
                                    !.file = IF w = 0 THEN snprintf_lu(shares) ELSE @,
                                    !.stored = IF w = 0 THEN shares ELSE @]
    /\ UnitsFrame

\* the caller has the result
UnitsReturn ==
    /\ units.op # "none"
    /\ units' = [NoUnits EXCEPT !.file = units.file]
    /\ UNCHANGED mount_path
    /\ UnitsFrame

NextUnits == SetCpuunits \/ UnitsReturn

SpecUnits == InitUnits /\ [][NextUnits]_vars

\* C21 as stated: a cg_env_set_cpuunits(cpuunits) that returns 0 has
\* written floor(cpuunits * 1024 / 1000), in decimal, to cpu.shares (the
\* floor is taken as floor(cpuunits * 128 / 125), the same number).
C21_CpuunitsScaled ==
    (units.op = "set" /\ units.ret = 0) =>
        /\ units.stored = (units.arg * 128) \div 125
        /\ units.file = snprintf_lu((units.arg * 128) \div 125)

\* what holds instead: the number written is the floor for every cpuunits
\* below 2^22, and floor(((cpuunits * 1024) mod 2^32) / 1000) from there on
C21_CpuunitsScaledBelowWrap ==
    (units.op = "set" /\ units.ret = 0) =>
        /\ units.arg < Pow2(22) =>
              /\ units.stored = (units.arg * 128) \div 125
              /\ units.file = snprintf_lu((units.arg * 128) \div 125)
        /\ (units.arg >= Pow2(22) /\ units.arg < Pow2(23)) =>
              units.stored = ((units.arg - Pow2(22)) * 128) \div 125

\* cpuunits = 1000 is written as 1024
C21_Thousand ==
    /\ units.op = "set" /\ units.ret = 0
    /\ units.arg = 1000 /\ units.stored = 1024
    /\ units.file = <<"1", "0", "2", "4">>

\* cpuunits = 2^22 is written as 0
C21_Wraps ==
    /\ units.op = "set" /\ units.ret = 0
    /\ units.arg = Pow2(22) /\ units.stored = 0
    /\ units.file = <<"0">>

(***************************************************************************)
(* SpecSlice: threads calling cg_get_slice_name for the first time, one    *)
(* step per statement that reads or writes the statics inited and slice.   *)
(* No lock is taken.  slice is the sequence of the names written into the  *)
(* buffer, one after the other (empty: the buffer of zeroes).  cfg is what *)
(* VE_CGROUP_SLICE is configured as (NULL: it is not).  The store to       *)
(* inited has no ordering against the writes to slice: the build keeps it  *)
(* after them ("program") or moves it up to the test ("hoisted").          *)
(***************************************************************************)
SliceThreads == 1..MaxThreads
SliceOverride == "ct.slice"

\* get_global_param(name, buf, size): 0 and the value in buf when the
\* parameter is configured, non-zero and buf untouched when it is not
get_global_param(cfg, buf) ==
    IF cfg = NULL THEN [ret |-> 1, buf |-> buf] ELSE [ret |-> 0, buf |-> <<cfg>>]

strcat(dst, src) == Append(dst, src)

\* the name a caller of cg_get_slice_name is to get
SliceExpected(cfg) == IF cfg = NULL THEN <<cg_get_slice_name>> ELSE <<cfg>>

\* a thread: pc, where it is; failed, what get_global_param returned to
\* it; got, the name it found in the buffer it was handed
NoSliceThread == [pc |-> "start", failed |-> FALSE, got |-> << >>]

InitSlice ==
    /\ \E cfg \in {NULL, SliceOverride} : \E build \in {"program", "hoisted"} :
          slc = [cfg |-> cfg, build |-> build, inited |-> 0, slice |-> << >>,
                 overlap |-> FALSE, t |-> [i \in SliceThreads |-> NoSliceThread]]
    /\ IdleHost /\ IdleLife /\ IdleCtl /\ IdleRm /\ IdleRetry /\ IdleBind /\ IdleMask
    /\ IdleFreeze /\ IdleRate /\ IdleUnits

SliceFrame == UNCHANGED <<hostVars, lifeVars, ctlVars, rmVars, retryVars, bindVars,
                          maskVars, frz, rate, units>>

\* if (!inited)
SliceTest ==
    \E i \in SliceThreads :
    /\ slc.t[i].pc = "start"
    /\ slc' = [slc EXCEPT
                  !.t[i].pc = IF slc.inited # 0 THEN "ret" ELSE "param",
                  !.inited = IF slc.inited = 0 /\ slc.build = "hoisted" THEN 1 ELSE @,
                  !.overlap = @ \/ \E j \in SliceThreads \ {i} :
                                      slc.t[j].pc \notin {"start", "done"}]
    /\ SliceFrame

\* get_global_param("VE_CGROUP_SLICE", slice, sizeof(slice))
SliceParam ==
    \E i \in SliceThreads :
    /\ slc.t[i].pc = "param"
    /\ \E g \in {get_global_param(slc.cfg, slc.slice)} :
          slc' = [slc EXCEPT !.slice = g.buf,
                             !.t[i].failed = g.ret # 0,
                             !.t[i].pc = IF g.ret # 0 THEN "cat"
                                         ELSE IF slc.build = "hoisted" THEN "ret"
                                         ELSE "set"]
    /\ SliceFrame

\* strcat(slice, "machine.slice")
SliceCat ==
    \E i \in SliceThreads :
    /\ slc.t[i].pc = "cat"
    /\ slc' = [slc EXCEPT !.slice = strcat(@, cg_get_slice_name),
                          !.t[i].pc = IF slc.build = "hoisted" THEN "ret" ELSE "set"]
    /\ SliceFrame

\* inited = 1
SliceSet ==
    \E i \in SliceThreads :
    /\ slc.t[i].pc = "set"
    /\ slc' = [slc EXCEPT !.inited = 1, !.t[i].pc = "ret"]
    /\ SliceFrame

\* return slice: the caller reads the name
SliceRet ==
    \E i \in SliceThreads :
    /\ slc.t[i].pc = "ret"
    /\ slc' = [slc EXCEPT !.t[i].pc = "done", !.t[i].got = slc.slice]
    /\ SliceFrame

NextSlice == SliceTest \/ SliceParam \/ SliceCat \/ SliceSet \/ SliceRet

SpecSlice == InitSlice /\ [][NextSlice]_vars

\* C22 as stated: under every interleaving of first calls, every thread
\* that has returned from cg_get_slice_name got the same name: the
\* configured override, or the default literal, once, when none is
\* configured; and that is what the buffer holds from then on.
C22_SliceNameOnce ==
    \A i \in SliceThreads :
        slc.t[i].pc = "done" =>
            /\ slc.t[i].got = SliceExpected(slc.cfg)
            /\ slc.slice = SliceExpected(slc.cfg)

\* what holds instead: calls that do not overlap all get that name, and so
\* do overlapping calls when an override is configured and the store to
\* inited stays where the program has it
C22_SliceNameOnceSerial ==
    \A i \in SliceThreads :
        (slc.t[i].pc = "done"
            /\ (~slc.overlap \/ (slc.cfg # NULL /\ slc.build = "program"))) =>
            slc.t[i].got = SliceExpected(slc.cfg)

\* two first calls that overlapped, with no override: both appended the
\* default, one got it once and the other twice
C22_DefaultTwice ==
    /\ slc.cfg = NULL /\ slc.build = "program"
    /\ \A i \in SliceThreads : slc.t[i].pc = "done"
    /\ \E i, j \in SliceThreads :
          /\ slc.t[i].got = <<cg_get_slice_name>>
          /\ slc.t[j].got = <<cg_get_slice_name, cg_get_slice_name>>

(***************************************************************************)
(* SpecRmClean: rm_tree on one tree when no open, scan, stat or removal    *)
(* fails and nothing else touches the tree.  The walk is one thread's      *)
(* loop: a step that can be taken is taken.                                *)
(***************************************************************************)
InitRmClean == InitRm /\ DOMAIN walk.eb = {}

RmOpenOk ==
    /\ walk.w.pc = "init"
    /\ \E w1 \in {rm_tree_open(RmRoot, walk.tree0, "none")} :
          walk' = [walk EXCEPT !.w = w1,
                               !.visits = IF w1.pc = "loop" THEN Entered(@, RmRoot) ELSE @]
    /\ UNCHANGED <<hostVars, lifeVars, ctlVars, retryVars, bindVars, maskVars, paramVars>>

RmIterOk ==
    /\ walk.w.pc = "loop"
    /\ \E ord \in Orders :
       \E w1 \in {rm_tree_iter(walk.w, FirstEnt(walk.w.dirs, walk.w.fd, ord), "none",
                               walk.eb)} :
          walk' = [walk EXCEPT !.w = w1,
                               !.visits = IF w1.level > walk.w.level
                                          THEN Entered(@, w1.fd) ELSE @]
    /\ UNCHANGED <<hostVars, lifeVars, ctlVars, retryVars, bindVars, maskVars, paramVars>>

NextRmClean == RmOpenOk \/ RmIterOk \/ RmExit

SpecRmClean ==
    /\ InitRmClean /\ [][NextRmClean]_vars
    /\ WF_vars(RmOpenOk) /\ WF_vars(RmIterOk) /\ WF_vars(RmExit)

\* while the walk runs its counter is the depth of fd below the root, and
\* nothing has failed; when it has returned, the result is 0 and no
\* directory of the tree is left
RmCleanStep ==
    /\ walk.w.ret = 0 /\ ~walk.w.rmfailed /\ ~walk.faulted
    /\ walk.w.pc \in {"loop", "exit"} =>
          /\ walk.w.level = Len(walk.w.fd) - Len(walk.w.path)
          /\ walk.w.level >= 0
          /\ walk.w.fd \in walk.w.dirs
    /\ walk.w.pc = "exit" => walk.w.dirs \subseteq {walk.w.path}
    /\ walk.w.pc = "done" => walk.w.dirs = {}

\* C24: on every tree, when no step fails and nothing else changes the
\* tree, rm_tree terminates, returns 0 and has removed every directory of
\* the tree, the root included; at every step of the walk its depth
\* counter is the depth of the directory fd is open on below the root, and
\* is not negative.
C24_RmTreeTotal == [](RmCleanStep) /\ <>(walk.w.pc = "done")

\* the walk of a tree three levels deep in which a directory has two
\* subdirectories has returned 0, and the tree is gone
C24_Witness ==
    /\ walk.w.pc = "done" /\ walk.w.ret = 0
    /\ \E d \in walk.tree0 : Len(d) = Len(RmRoot) + 3
    /\ \E d \in walk.tree0 : Cardinality(Subdirs(walk.tree0, d)) = 2
    /\ walk.w.dirs = {}

=============================================================================
